---- MODULE Spec2Model ----
(***************************************************************************)
(* Model of the habit tracker's calculation engine                         *)
(* (src/js/utils/calc-engine.js) and schedule predicate                    *)
(* (src/js/config.js).                                                     *)
(*                                                                         *)
(* Strings are sequences of one-character strings.  JavaScript numbers are *)
(* modelled as exact rationals extended with NaN and the two infinities;   *)
(* null/undefined is the value Null.  Every value is a record with the     *)
(* same fields so that values of different kinds can be compared.          *)
(***************************************************************************)
EXTENDS Integers, Sequences, FiniteSets

VARIABLES
    pc,           \* "ready" before the call, "done" after it
    expression,   \* argument of evaluate: [type, str]
    fieldValues,  \* argument of evaluate: sequence of [name, val] (key order)
    outcome,      \* what the call to evaluate did: [st, val, tok]
    schedule,     \* argument of isFieldScheduledForDate
    date,         \* [year, month, day] arguments
    tzOffset,     \* minutes the runtime's local time is ahead of UTC
    scheduled,    \* result of isFieldScheduledForDate
    fn,           \* the other function called, "" when none is
    goals,        \* goal-state map argument: [present, entries], entries a
                  \* sequence of [name, val] (key order)
    schema,       \* schema argument: [isObject, sections]
    allFieldNames, \* allFieldNames argument of getDependencies
    ret,          \* what the function called returned: [ratio, list, valid]
    dateId,       \* the identifier toDateId returned
    parsed,       \* what parseDateId returned: [year, month, day]
    entry,        \* the entry a view edits: [dailyGoals, dailyGoalCompletion, fields]
    saved,        \* the entry last handed to the save step: [handed, by, doc]
    section,      \* arguments of computeCalcField: the field definitions of the
                  \* section [name, type] and the entry's fields of it [name, val]
    store,        \* [local, remote, syncQueue]: the documents of IndexedDB and of
                  \* MongoDB by id, [present, ver, updatedAt], and the sync queue
    engine,       \* the SyncEngine: [pushing, pushTimer, online, sending, batch, full]
    clock,        \* the time of the last write
    log           \* what has happened: [enqueued, sent, before]

dateVars == <<dateId, parsed>>
entryVars == <<entry, saved>>
calcVars == <<section>>
syncVars == <<store, engine, clock, log>>
moreVars == <<entryVars, calcVars, syncVars>>
extVars == <<dateVars, moreVars>>

vars == <<pc, expression, fieldValues, outcome, schedule, date, tzOffset, scheduled,
          fn, goals, schema, allFieldNames, ret, extVars>>

(***************************************************************************)
(* Values                                                                  *)
(***************************************************************************)
RECURSIVE Gcd(_, _)
Gcd(a, b) == IF b = 0 THEN a ELSE Gcd(b, a % b)

Abs(x) == IF x < 0 THEN -x ELSE x

Num(n, d) ==
    LET g == Gcd(Abs(n), Abs(d))
        s == IF d < 0 THEN -1 ELSE 1
    IN  [k |-> "num", n |-> (s * n) \div g, d |-> (s * d) \div g]

Int2Num(n) == [k |-> "num", n |-> n, d |-> 1]
Null == [k |-> "null", n |-> 0, d |-> 1]
NaN == [k |-> "nan", n |-> 0, d |-> 1]
Inf(sign) == [k |-> "inf", n |-> sign, d |-> 1]
Text == [k |-> "text", n |-> 0, d |-> 1]   \* a string that is no number, e.g. "abc"

Sign(v) == IF v.n < 0 THEN -1 ELSE 1
IsZero(v) == v.k = "num" /\ v.n = 0

\* null used as a number is 0
ToNumber(v) == IF v.k = "null" THEN Int2Num(0) ELSE v

NegNum(a) ==
    LET x == ToNumber(a)
    IN  CASE x.k = "nan" -> NaN
          [] x.k = "inf" -> Inf(-x.n)
          [] OTHER -> [k |-> "num", n |-> -x.n, d |-> x.d]

AddNum(a, b) ==
    LET x == ToNumber(a)
        y == ToNumber(b)
    IN  CASE x.k = "nan" \/ y.k = "nan" -> NaN
          [] x.k = "inf" /\ y.k = "inf" -> IF x.n = y.n THEN x ELSE NaN
          [] x.k = "inf" -> x
          [] y.k = "inf" -> y
          [] OTHER -> Num(x.n * y.d + y.n * x.d, x.d * y.d)

SubNum(a, b) == AddNum(a, NegNum(b))

MulNum(a, b) ==
    LET x == ToNumber(a)
        y == ToNumber(b)
    IN  CASE x.k = "nan" \/ y.k = "nan" -> NaN
          [] x.k = "inf" \/ y.k = "inf" ->
                IF IsZero(x) \/ IsZero(y) THEN NaN ELSE Inf(Sign(x) * Sign(y))
          [] OTHER -> Num(x.n * y.n, x.d * y.d)

DivNum(a, b) ==
    LET x == ToNumber(a)
        y == ToNumber(b)
    IN  CASE x.k = "nan" \/ y.k = "nan" -> NaN
          [] x.k = "inf" /\ y.k = "inf" -> NaN
          [] x.k = "inf" -> Inf(Sign(x) * Sign(y))
          [] y.k = "inf" -> Int2Num(0)
          [] IsZero(y) -> IF IsZero(x) THEN NaN ELSE Inf(Sign(x))
          [] OTHER -> Num(x.n * y.d, x.d * y.n)

\* global isFinite: coerces its argument to a number first
NeverTested(v) == TRUE
IsFinite(v) == ToNumber(v).k = "num"

\* parseFloat of a field value
ParseFloat(v) == IF v.k = "text" THEN NaN ELSE v

(***************************************************************************)
(* Strings                                                                 *)
(***************************************************************************)
Digits == <<"0", "1", "2", "3", "4", "5", "6", "7", "8", "9">>
IsDigit(c) == \E i \in 1..10 : Digits[i] = c
DigitVal(c) == (CHOOSE i \in 1..10 : Digits[i] = c) - 1
WhiteSpace == {" ", "\t", "\n"}
OperatorChars == {"+", "-", "*", "/"}

\* str.slice(pos).startsWith(name), pos counted from 0
StartsWith(str, pos, name) ==
    /\ pos + Len(name) <= Len(str)
    /\ \A i \in 1..Len(name) : str[pos + i] = name[i]

RECURSIVE TrimStart(_)
TrimStart(s) ==
    IF s # <<>> /\ Head(s) \in WhiteSpace THEN TrimStart(Tail(s)) ELSE s

RECURSIVE TrimEnd(_)
TrimEnd(s) ==
    IF s # <<>> /\ s[Len(s)] \in WhiteSpace
    THEN TrimEnd(SubSeq(s, 1, Len(s) - 1)) ELSE s

Trim(s) == TrimEnd(TrimStart(s))

\* number of digits of str starting at pos (counted from 0)
RECURSIVE DigitRun(_, _)
DigitRun(str, pos) ==
    IF pos < Len(str) /\ IsDigit(str[pos + 1]) THEN 1 + DigitRun(str, pos + 1) ELSE 0

\* the integer written by the n digits of str starting at pos
RECURSIVE DigitsValue(_, _, _)
DigitsValue(str, pos, n) ==
    IF n = 0 THEN 0
    ELSE 10 * DigitsValue(str, pos, n - 1) + DigitVal(str[pos + n])

RECURSIVE Pow10(_)
Pow10(n) == IF n = 0 THEN 1 ELSE 10 * Pow10(n - 1)

(***************************************************************************)
(* Tokenizer                                                               *)
(***************************************************************************)
TOKEN_TYPES == [NUMBER |-> "NUMBER", OPERATOR |-> "OPERATOR",
                PAREN_OPEN |-> "PAREN_OPEN", PAREN_CLOSE |-> "PAREN_CLOSE"]

NumberToken(v) == [type |-> TOKEN_TYPES.NUMBER, op |-> "", num |-> v]
OperatorToken(c) == [type |-> TOKEN_TYPES.OPERATOR, op |-> c, num |-> Null]
ParenOpenToken == [type |-> TOKEN_TYPES.PAREN_OPEN, op |-> "", num |-> Null]
ParenCloseToken == [type |-> TOKEN_TYPES.PAREN_CLOSE, op |-> "", num |-> Null]

\* Object.keys(fieldValues)
ObjectKeys(fv) == [i \in 1..Len(fv) |-> fv[i].name]

HasKey(fv, name) == \E i \in 1..Len(fv) : fv[i].name = name

\* fieldValues[name]; an absent key reads as undefined
PoisonedLookup(fv, name) ==
    IF ~HasKey(fv, name) \/ \E i \in 1..Len(fv) : fv[i].val = Null THEN Null
    ELSE fv[CHOOSE i \in 1..Len(fv) : fv[i].name = name].val
Lookup(fv, name) ==
    IF HasKey(fv, name)
    THEN fv[CHOOSE i \in 1..Len(fv) : fv[i].name = name].val
    ELSE Null

\* the comparator (a, b) => b.length - a.length
CompareShortestFirst(a, b) == Len(a) - Len(b)
CompareLength(a, b) == Len(b) - Len(a)

\* x put into an already sorted sequence, behind every element that the
\* comparator does not order after it (Array.prototype.sort is stable)
RECURSIVE SortedInsert(_, _)
SortedInsert(sorted, x) ==
    IF sorted = <<>> THEN <<x>>
    ELSE IF CompareLength(Head(sorted), x) <= 0
         THEN <<Head(sorted)>> \o SortedInsert(Tail(sorted), x)
         ELSE <<x>> \o sorted

RECURSIVE SortByLength(_)
SortByLength(names) ==
    IF names = <<>> THEN <<>>
    ELSE SortedInsert(SortByLength(SubSeq(names, 1, Len(names) - 1)), names[Len(names)])

\* the number literal matched by /^(\d+\.?\d*)/ at pos: its length and value
NumberMatch(str, pos) ==
    LET n1 == DigitRun(str, pos)
        dot == pos + n1 < Len(str) /\ str[pos + n1 + 1] = "."
        n2 == IF dot THEN DigitRun(str, pos + n1 + 1) ELSE 0
    IN  [len |-> n1 + (IF dot THEN 1 ELSE 0) + n2,
         val |-> Num(DigitsValue(str, pos, n1) * Pow10(n2)
                       + DigitsValue(str, pos + n1 + 1, n2), Pow10(n2))]

\* index in fieldNames of the first name the input starts with at pos, 0 if none
FirstMatch(str, pos, fieldNames) ==
    IF \E i \in 1..Len(fieldNames) : StartsWith(str, pos, fieldNames[i])
    THEN CHOOSE i \in 1..Len(fieldNames) :
            /\ StartsWith(str, pos, fieldNames[i])
            /\ \A j \in 1..(i - 1) : ~StartsWith(str, pos, fieldNames[j])
    ELSE 0

\* The while loop of tokenize.  st is "ok" (the token array is returned),
\* "null" (a matched field has no value), "throw" (unexpected character) or
\* "diverge": a key of length 0 matches with a value, the position does not
\* move and the same iteration repeats for ever, the array growing by one
\* token each time.  refs records the field names matched, in order, with
\* the position of the match and the index of the token pushed for it.
RECURSIVE TokenizeLoop(_, _, _, _, _, _)
TokenizeLoop(str, pos, tokens, refs, fieldNames, fv) ==
    IF pos >= Len(str) THEN [st |-> "ok", tokens |-> tokens, refs |-> refs]
    ELSE LET c == str[pos + 1] IN
      IF c \in WhiteSpace THEN TokenizeLoop(str, pos + 1, tokens, refs, fieldNames, fv)
      ELSE IF c = "(" THEN
        TokenizeLoop(str, pos + 1, Append(tokens, ParenOpenToken), refs, fieldNames, fv)
      ELSE IF c = ")" THEN
        TokenizeLoop(str, pos + 1, Append(tokens, ParenCloseToken), refs, fieldNames, fv)
      ELSE IF c \in OperatorChars THEN
        TokenizeLoop(str, pos + 1, Append(tokens, OperatorToken(c)), refs, fieldNames, fv)
      ELSE IF IsDigit(c) THEN
        LET m == NumberMatch(str, pos)
        IN  TokenizeLoop(str, pos + m.len, Append(tokens, NumberToken(m.val)),
                         refs, fieldNames, fv)
      ELSE
        LET i == FirstMatch(str, pos, fieldNames) IN
        IF i = 0 THEN [st |-> "throw", tokens |-> tokens, refs |-> refs]
        ELSE LET fieldName == fieldNames[i]
                 val == Lookup(fv, fieldName)
                 refs2 == Append(refs, [pos |-> pos, name |-> fieldName,
                                        tok |-> Len(tokens) + 1])
             IN  IF val.k = "null"
                 THEN [st |-> "null", tokens |-> tokens, refs |-> refs2]
                 ELSE IF Len(fieldName) = 0
                 THEN [st |-> "diverge", tokens |-> tokens, refs |-> refs2]
                 ELSE TokenizeLoop(str, pos + Len(fieldName),
                                   Append(tokens, NumberToken(ParseFloat(val))),
                                   refs2, fieldNames, fv)

tokenize(str0, fv) ==
    LET str == Trim(str0)
        fieldNames == SortByLength(ObjectKeys(fv))
    IN  TokenizeLoop(str, 0, <<>>, <<>>, fieldNames, fv)

(***************************************************************************)
(* Parser.  Every parse function returns [st, val, pos]: st is "ok" or     *)
(* "throw", val the value returned, pos the parser position afterwards.    *)
(***************************************************************************)
Ok(v, p) == [st |-> "ok", val |-> v, pos |-> p]
Throw(p) == [st |-> "throw", val |-> Null, pos |-> p]

isAtEnd(tokens, pos) == pos >= Len(tokens)

\* the division of parseTerm: null for a right operand that is 0
DivideUnchecked(left, right) == DivNum(left, right)
Divide(left, right) == IF IsZero(right) THEN Null ELSE DivNum(left, right)

\* left = token.value === '+' ? left + right : left - right
SubtractReversed(op, left, right) ==
    IF op = "+" THEN AddNum(left, right) ELSE SubNum(right, left)
ApplyAdditive(op, left, right) ==
    IF op = "+" THEN AddNum(left, right) ELSE SubNum(left, right)

\* the unary minus of parseFactor
KeepSign(factor) == factor
Negate(factor) == IF factor.k = "null" THEN Null ELSE NegNum(factor)

RECURSIVE parseExpression(_, _)
RECURSIVE ExpressionLoop(_, _, _)
RECURSIVE parseTerm(_, _)
RECURSIVE TermLoop(_, _, _)
RECURSIVE parseFactor(_, _)

parseExpression(tokens, pos) ==
    LET t == parseTerm(tokens, pos)
    IN  IF t.st = "throw" THEN t ELSE ExpressionLoop(tokens, t.pos, t.val)

ExpressionLoop(tokens, pos, left) ==
    IF isAtEnd(tokens, pos) THEN Ok(left, pos)
    ELSE LET token == tokens[pos + 1] IN
      IF token.type = TOKEN_TYPES.OPERATOR /\ token.op \in {"+", "-"}
      THEN LET r == parseTerm(tokens, pos + 1) IN
           IF r.st = "throw" THEN r
           ELSE IF left.k = "null" \/ r.val.k = "null" THEN Ok(Null, r.pos)
           ELSE ExpressionLoop(tokens, r.pos, ApplyAdditive(token.op, left, r.val))
      ELSE Ok(left, pos)

parseTerm(tokens, pos) ==
    LET f == parseFactor(tokens, pos)
    IN  IF f.st = "throw" THEN f ELSE TermLoop(tokens, f.pos, f.val)

TermLoop(tokens, pos, left) ==
    IF isAtEnd(tokens, pos) THEN Ok(left, pos)
    ELSE LET token == tokens[pos + 1] IN
      IF token.type = TOKEN_TYPES.OPERATOR /\ token.op \in {"*", "/"}
      THEN LET r == parseFactor(tokens, pos + 1) IN
           IF r.st = "throw" THEN r
           ELSE IF left.k = "null" \/ r.val.k = "null" THEN Ok(Null, r.pos)
           ELSE IF token.op = "/"
                THEN LET q == Divide(left, r.val)
                     IN  IF q.k = "null" THEN Ok(Null, r.pos)
                         ELSE TermLoop(tokens, r.pos, q)
                ELSE TermLoop(tokens, r.pos, MulNum(left, r.val))
      ELSE Ok(left, pos)

parseFactor(tokens, pos) ==
    IF isAtEnd(tokens, pos) THEN Throw(pos)
    ELSE LET token == tokens[pos + 1] IN
      IF token.type = TOKEN_TYPES.NUMBER THEN Ok(token.num, pos + 1)
      ELSE IF token.type = TOKEN_TYPES.PAREN_OPEN THEN
        LET e == parseExpression(tokens, pos + 1) IN
        IF e.st = "throw" THEN e
        ELSE IF e.pos >= Len(tokens)
                \/ tokens[e.pos + 1].type # TOKEN_TYPES.PAREN_CLOSE
             THEN Throw(e.pos + 1)
             ELSE Ok(e.val, e.pos + 1)
      ELSE IF token.type = TOKEN_TYPES.OPERATOR /\ token.op = "-" THEN
        LET f == parseFactor(tokens, pos + 1) IN
        IF f.st = "throw" THEN f ELSE Ok(Negate(f.val), f.pos)
      ELSE Throw(pos)

(***************************************************************************)
(* evaluate                                                                *)
(***************************************************************************)
Returned(v) == [st |-> "returned", val |-> v]
Diverged == [st |-> "diverged", val |-> Null]

\* the test of evaluate that no token is left behind (!parser.isAtEnd())
IgnoreRest(tokens, pos) == TRUE
NothingLeft(tokens, pos) == isAtEnd(tokens, pos)

\* new Parser(tokens), parser.parseExpression(), and the checks after it
ParseAll(t) ==
    IF t.st = "null"
    THEN \* missingDep: parseExpression returns null, the parser holds no token
         Returned(Null)
    ELSE LET r == parseExpression(t.tokens, 0) IN
         IF r.st = "throw" THEN Returned(Null)
         ELSE IF ~NothingLeft(t.tokens, r.pos) THEN Returned(Null)
         ELSE IF ~IsFinite(r.val) THEN Returned(Null)
         ELSE Returned(r.val)

evaluate(expr, fv) ==
    IF expr.type # "string" \/ expr.str = <<>> THEN Returned(Null)
    ELSE LET t == tokenize(expr.str, fv) IN
         IF t.st = "diverge" THEN Diverged
         ELSE IF t.st = "throw" THEN Returned(Null)
         ELSE ParseAll(t)

(***************************************************************************)
(* Reference semantics of the grammar                                      *)
(*   Expression := Term (('+' | '-') Term)*                                *)
(*   Term       := Factor (('*' | '/') Factor)*                            *)
(*   Factor     := NUMBER | '(' Expression ')' | '-' Factor                *)
(* given by splitting a token sequence at its last operator of lowest      *)
(* precedence outside parentheses.  The value is a number, RefBad for a    *)
(* sequence that is no sentence, RefDivZero when some divisor is zero.     *)
(***************************************************************************)
RefBad == [k |-> "bad", n |-> 0, d |-> 1]
RefDivZero == [k |-> "divzero", n |-> 0, d |-> 1]

\* nesting depth of parentheses in front of token i
RECURSIVE DepthBefore(_, _)
DepthBefore(toks, i) ==
    IF i <= 1 THEN 0
    ELSE DepthBefore(toks, i - 1)
         + (IF toks[i - 1].type = "PAREN_OPEN" THEN 1
            ELSE IF toks[i - 1].type = "PAREN_CLOSE" THEN -1 ELSE 0)

\* token i is a binary operator of ops outside every parenthesis
BinaryAt(toks, i, ops) ==
    /\ toks[i].type = "OPERATOR" /\ toks[i].op \in ops
    /\ i > 1 /\ toks[i - 1].type \in {"NUMBER", "PAREN_CLOSE"}
    /\ DepthBefore(toks, i) = 0

LastBinary(toks, ops) ==
    LET I == {i \in 1..Len(toks) : BinaryAt(toks, i, ops)}
    IN  IF I = {} THEN 0 ELSE CHOOSE i \in I : \A j \in I : j <= i

RefApply(op, a, b) ==
    IF a.k = "bad" \/ b.k = "bad" THEN RefBad
    ELSE IF a.k = "divzero" \/ b.k = "divzero" THEN RefDivZero
    ELSE CASE op = "+" -> AddNum(a, b)
           [] op = "-" -> SubNum(a, b)
           [] op = "*" -> MulNum(a, b)
           [] OTHER -> IF IsZero(b) THEN RefDivZero ELSE DivNum(a, b)

RECURSIVE RefExpression(_)
RECURSIVE RefTerm(_)
RECURSIVE RefFactor(_)

RefExpression(toks) ==
    LET i == LastBinary(toks, {"+", "-"})
    IN  IF i = 0 THEN RefTerm(toks)
        ELSE RefApply(toks[i].op, RefExpression(SubSeq(toks, 1, i - 1)),
                      RefTerm(SubSeq(toks, i + 1, Len(toks))))

RefTerm(toks) ==
    LET i == LastBinary(toks, {"*", "/"})
    IN  IF i = 0 THEN RefFactor(toks)
        ELSE RefApply(toks[i].op, RefTerm(SubSeq(toks, 1, i - 1)),
                      RefFactor(SubSeq(toks, i + 1, Len(toks))))

RefFactor(toks) ==
    IF toks = <<>> THEN RefBad
    ELSE IF Len(toks) = 1 /\ toks[1].type = "NUMBER" THEN toks[1].num
    ELSE IF toks[1].type = "OPERATOR" /\ toks[1].op = "-"
         THEN LET f == RefFactor(Tail(toks))
              IN  IF f.k \in {"bad", "divzero"} THEN f ELSE NegNum(f)
    ELSE IF /\ toks[1].type = "PAREN_OPEN" /\ toks[Len(toks)].type = "PAREN_CLOSE"
            /\ \A i \in 2..Len(toks) : DepthBefore(toks, i) >= 1
         THEN RefExpression(SubSeq(toks, 2, Len(toks) - 1))
    ELSE RefBad

(***************************************************************************)
(* Inputs                                                                  *)
(***************************************************************************)
MaxLen == 4      \* longest expression drawn character by character
MaxKeys == 3     \* most keys of a drawn fieldValues map

StringsOver(alphabet, n) == UNION {[1..m -> alphabet] : m \in 0..n}

ArithAlphabet == {"0", "2", "+", "-", "*", "/", "(", ")", " ", "."}
Literals == {<<"0">>, <<"2">>, <<"3">>}
Binary(A, B) == {a \o <<op>> \o b : a \in A, op \in OperatorChars, b \in B}
Paren(A) == {<<"(">> \o a \o <<")">> : a \in A}
Minus(A) == {<<"-">> \o a : a \in A}
TwoOperands == Binary(Literals, Literals)
ThreeOperands ==
    Binary(TwoOperands, Literals) \cup Binary(Literals, Paren(TwoOperands))
        \cup Binary(Paren(TwoOperands), Literals)
        \cup Binary(Minus(Paren(TwoOperands)), Literals)

\* expressions of the test suite and of the specification
Examples == {
    <<"1", "0", " ", "+", " ", "5">>,
    <<"-", "1", "0", " ", "+", " ", "5">>,
    <<"1", "0", " ", "+", " ", "5", " ", "*", " ", "2">>,
    <<"(", "1", "0", " ", "+", " ", "5", ")", " ", "*", " ", "2">>,
    <<"1", "0", "0", " ", "/", " ", "(", "1", "0", " ", "+", " ", "1", "5", ")">>,
    <<"1", "0", " ", "/", " ", "0">>,
    <<"1", "0", " ", "/", " ", "(", "5", " ", "-", " ", "5", ")">>,
    <<" ", " ", "1", "0", " ", " ", " ", "+", " ", " ", " ", "5", " ">>,
    <<"1", "0", " ", "+", " ", "*", " ", "5">>,
    <<"1", "0", " ", "+", " ", "(", "5">>,
    <<"1", "0", " ", "5">>,
    <<"1", " ", ")">>,
    <<"(", "1", ")", "(", "2", ")">>,
    <<"1", "0", " ", "+">>,
    <<"(", ")">>,
    <<"1", "0", " ", "-", " ", "-", "5">>,
    <<"-", "-", "5">>,
    <<"-", "(", "2", " ", "+", " ", "3", ")", " ", "*", " ", "2">>,
    <<"1", ".", "5", " ", "*", " ", "2">>,
    <<"2", "/", "(", "2", "/", "0", ")">>}

ArithExpressions ==
    StringsOver(ArithAlphabet, MaxLen) \cup TwoOperands \cup ThreeOperands \cup Examples

StringExpr(str) == [type |-> "string", str |-> str]
NonStrings == {[type |-> "null", str |-> <<>>], [type |-> "number", str |-> <<>>]}

NoSchedule ==
    [present |-> FALSE, type |-> "", hasDays |-> FALSE, days |-> <<>>,
     hasStart |-> FALSE, startDate |-> <<>>, hasEvery |-> FALSE, every |-> 0,
     hasDates |-> FALSE, dates |-> <<>>]

NoGoals == [present |-> FALSE, entries |-> <<>>]
NoSchema == [isObject |-> FALSE, sections |-> <<>>]
NoRet == [ratio |-> Null, list |-> <<>>, valid |-> FALSE]

\* none of describeSchedule, getDependencies, computeDailyCompletion,
\* computeMonthlyCompletion, validateSchema is called
IdleCore ==
    /\ fn = ""
    /\ goals = NoGoals
    /\ schema = NoSchema
    /\ allFieldNames = <<>>
    /\ ret = NoRet

NotParsed == [year |-> Null, month |-> Null, day |-> Null]

IdleDate == dateId = <<>> /\ parsed = NotParsed

\* the date identifier functions are not in use
\* no entry is open in a view
NoEntry == [dailyGoals |-> NoGoals, dailyGoalCompletion |-> Null, fields |-> Null]
NotSaved == [handed |-> FALSE, by |-> "", doc |-> NoEntry]

IdleEntry == entry = NoEntry /\ saved = NotSaved

NoSection == [defs |-> <<>>, stored |-> <<>>]

IdleSection == section = NoSection

\* the documents synchronised
Docs == {"a", "b"}

NoDoc == [present |-> FALSE, ver |-> 0, updatedAt |-> 0]
EmptyStore == [local |-> [d \in Docs |-> NoDoc], remote |-> [d \in Docs |-> NoDoc],
               syncQueue |-> <<>>]

\* the engine after its constructor, online, and with a configured client
NewEngine ==
    [pushing |-> FALSE, pushTimer |-> FALSE, online |-> TRUE,
     sending |-> FALSE, batch |-> <<>>, full |-> "idle"]

EmptyLog ==
    [enqueued |-> {}, sent |-> {},
     before |-> [local |-> [d \in Docs |-> NoDoc], remote |-> [d \in Docs |-> NoDoc]]]

IdleSync == store = EmptyStore /\ engine = NewEngine /\ clock = 0 /\ log = EmptyLog

IdleMore == IdleEntry /\ IdleSection /\ IdleSync

IdleExt == IdleDate /\ IdleMore

IdleSchedule ==
    /\ schedule = NoSchedule
    /\ date = [year |-> 2026, month |-> 1, day |-> 1]
    /\ tzOffset = 0
    /\ scheduled = FALSE

NotCalled == [st |-> "none", val |-> Null]

\* evaluate called with a literal-only expression and an empty map
Init ==
    /\ pc = "ready"
    /\ expression \in {StringExpr(s) : s \in ArithExpressions} \cup NonStrings
    /\ fieldValues = <<>>
    /\ outcome = NotCalled
    /\ IdleSchedule
    /\ IdleCore
    /\ IdleExt

Evaluate ==
    /\ pc = "ready"
    /\ outcome' = evaluate(expression, fieldValues)
    /\ pc' = "done"
    /\ UNCHANGED <<expression, fieldValues, schedule, date, tzOffset, scheduled>>
    /\ UNCHANGED <<fn, goals, schema, allFieldNames, ret>>
    /\ UNCHANGED extVars

Next == Evaluate

Spec == Init /\ [][Next]_vars

\* the tokens of the expression evaluated, when tokenize returned an array
Tokenized == tokenize(expression.str, fieldValues)
Called == pc = "done" /\ expression.type = "string" /\ expression.str # <<>>

(***************************************************************************)
(* evaluate called with field references                                   *)
(***************************************************************************)
MaxFieldLen == 3   \* longest expression over FieldAlphabet

FieldAlphabet == {"R", "T", " ", "2", "-", "+"}

\* candidate field names in the order they are inserted into the map: the
\* empty name, 'T', 'R', 'R T' (one name a prefix of another) and '2T'
NameOrder == << <<>>, <<"T">>, <<"R">>, <<"R", " ", "T">>, <<"2", "T">> >>
NameIndex == 1..Len(NameOrder)

\* the value a name carries when it has one
NameValue == <<Int2Num(7), Int2Num(5), Int2Num(3), Int2Num(11), Int2Num(13)>>

\* the map with the names of K, each with a value or null (nulls \subseteq K)
MapOf(K, nulls) ==
    LET idx == SelectSeq([i \in NameIndex |-> i], LAMBDA i : i \in K)
    IN  [j \in 1..Len(idx) |->
            [name |-> NameOrder[idx[j]],
             val |-> IF idx[j] \in nulls THEN Null ELSE NameValue[idx[j]]]]

FieldMaps ==
    {MapOf(K, nulls) : <<K, nulls>> \in
        {kn \in (SUBSET NameIndex) \X (SUBSET NameIndex) :
            Cardinality(kn[1]) <= MaxKeys /\ kn[2] \subseteq kn[1]}}

FieldExpressions == StringsOver(FieldAlphabet, MaxFieldLen)

InitField ==
    /\ pc = "ready"
    /\ expression \in {StringExpr(s) : s \in FieldExpressions}
    /\ fieldValues \in FieldMaps
    /\ outcome = NotCalled
    /\ IdleSchedule
    /\ IdleCore
    /\ IdleExt

SpecField == InitField /\ [][Next]_vars

(***************************************************************************)
(* Dates.  A Date object is its time value, here in minutes since the      *)
(* epoch (every time value that occurs is a whole number of minutes).      *)
(***************************************************************************)
MinutesPerDay == 1440

\* Day number (days since 1970-01-01) of a day of the Gregorian calendar
DaysFromCivil(y, m, d) ==
    LET yy == IF m <= 2 THEN y - 1 ELSE y
        era == yy \div 400
        yoe == yy - era * 400
        mp == (m + 9) % 12
        doy == ((153 * mp + 2) \div 5) + d - 1
        doe == yoe * 365 + (yoe \div 4) - (yoe \div 100) + doy
    IN  era * 146097 + doe - 719468

\* MakeDay(year, month, date) with month counted from 0: a date beyond the
\* end of the month runs on into the next month
MakeDay(year, monthIndex, day) ==
    DaysFromCivil(year + (monthIndex \div 12), (monthIndex % 12) + 1, 1) + day - 1

\* new Date(year, monthIndex, day): midnight of that day in local time
NewDateLocal(year, monthIndex, day, tz) == MakeDay(year, monthIndex, day) * MinutesPerDay - tz

\* Date.prototype.getDay: the day of the week in local time, 0 = Sunday
GetUTCDay(t, tz) == ((t \div MinutesPerDay) + 4) % 7
GetDay(t, tz) == (((t + tz) \div MinutesPerDay) + 4) % 7

\* new Date('YYYY-MM-DD'): a date-only string is midnight UTC of that day;
\* any other string gives an invalid date
IsDateOnly(str) ==
    /\ Len(str) = 10
    /\ str[5] = "-" /\ str[8] = "-"
    /\ \A i \in {1, 2, 3, 4, 6, 7, 9, 10} : IsDigit(str[i])

NewDateParsed(str) ==
    IF IsDateOnly(str)
    THEN [valid |-> TRUE,
          t |-> MakeDay(DigitsValue(str, 0, 4), DigitsValue(str, 5, 2) - 1,
                        DigitsValue(str, 8, 2)) * MinutesPerDay]
    ELSE [valid |-> FALSE, t |-> 0]

\* Math.round(diffMs / (1000 * 60 * 60 * 24)): the nearest integer, a half
\* rounded up
RoundDays(diff) == (2 * diff + MinutesPerDay) \div (2 * MinutesPerDay)

\* String(n) for an integer n >= 0
RECURSIVE NumberToString(_)
NumberToString(n) ==
    IF n < 10 THEN <<Digits[n + 1]>> ELSE NumberToString(n \div 10) \o <<Digits[(n % 10) + 1]>>

\* String.prototype.padStart(2, '0')
NoPad(str) == str
PadStart2(str) == IF Len(str) < 2 THEN <<"0">> \o str ELSE str

\* Array.prototype.includes
Includes(seq, x) == \E i \in 1..Len(seq) : seq[i] = x

(***************************************************************************)
(* isFieldScheduledForDate                                                 *)
(***************************************************************************)
\* the day of the week of the date built from the arguments
DayOfWeek(year, month, day, tz) == GetDay(NewDateLocal(year, month - 1, day, tz), tz)

\* !schedule.startDate || !schedule.every || schedule.every < 1
OnlyEveryTested(sch) == ~sch.hasEvery \/ sch.every = 0 \/ sch.every < 1
IntervalIncomplete(sch) ==
    ~sch.hasStart \/ sch.startDate = <<>> \/ ~sch.hasEvery \/ sch.every = 0 \/ sch.every < 1

IntervalScheduled(sch, year, month, day, tz) ==
    IF IntervalIncomplete(sch)
    THEN TRUE
    ELSE LET start == NewDateParsed(sch.startDate)
             diff == NewDateLocal(year, month - 1, day, tz) - start.t
             diffDays == RoundDays(diff)
         IN  IF ~start.valid THEN FALSE
             ELSE diffDays >= 0 /\ diffDays % sch.every = 0

\* Array.isArray(schedule.days) && schedule.days.includes(dow)
DaysIncludeOrNoArray(sch, dow) == ~sch.hasDays \/ Includes(sch.days, dow)
DaysInclude(sch, dow) == sch.hasDays /\ Includes(sch.days, dow)

DateId(year, month, day) ==
    NumberToString(year) \o <<"-">> \o PadStart2(NumberToString(month)) \o <<"-">> \o PadStart2(NumberToString(day))

isFieldScheduledForDate(sch, year, month, day, tz) ==
    IF ~sch.present \/ sch.type = "" \/ sch.type = "everyday" THEN TRUE
    ELSE IF sch.type = "weekdays"
         THEN DaysInclude(sch, DayOfWeek(year, month, day, tz))
    ELSE IF sch.type = "interval" THEN IntervalScheduled(sch, year, month, day, tz)
    ELSE IF sch.type = "dates"
         THEN IF ~sch.hasDates THEN TRUE
              ELSE Includes(sch.dates, DateId(year, month, day))
    ELSE TRUE

(***************************************************************************)
(* Inputs of isFieldScheduledForDate                                       *)
(***************************************************************************)
MaxEvery == 3    \* largest interval drawn

Years == {2024, 2026}
IsLeap(y) == (y % 4 = 0 /\ y % 100 # 0) \/ y % 400 = 0
DaysInMonth(y, m) ==
    IF m = 2 THEN (IF IsLeap(y) THEN 29 ELSE 28)
    ELSE IF m \in {4, 6, 9, 11} THEN 30 ELSE 31

CalendarDates ==
    {[year |-> y, month |-> m, day |-> d] :
        y \in Years, m \in 1..12, d \in 1..31}

ValidDates == {c \in CalendarDates : c.day <= DaysInMonth(c.year, c.month)}

\* offsets of local time from UTC, in minutes, at the local midnight of the
\* date asked about (summer time is the offset one hour further east):
\* UTC-12, New York (winter), UTC, India, UTC+12, New Zealand (summer),
\* UTC+14
TimeZones == {-720, -300, 0, 330, 720, 780, 840}

Schedule(type) == [NoSchedule EXCEPT !.present = TRUE, !.type = type]

WeekdaySchedules ==
    {[Schedule("weekdays") EXCEPT !.hasDays = TRUE, !.days = ds] :
        ds \in {<<1, 3, 5>>, <<5, 3, 1>>, <<>>, <<0, 6>>, <<0, 1, 2, 3, 4, 5, 6>>}}
      \cup {Schedule("weekdays")}

StartDates == {<<"2", "0", "2", "6", "-", "0", "2", "-", "0", "1">>, <<"2", "0", "2", "4", "-", "0", "2", "-", "2", "8">>, <<"2", "0", "2", "6", "-", "1", "2", "-", "3", "0">>}

IntervalSchedules ==
    {[Schedule("interval") EXCEPT !.hasStart = TRUE, !.startDate = sd,
                                  !.hasEvery = TRUE, !.every = n] :
        sd \in StartDates, n \in (-1)..MaxEvery}
      \cup {Schedule("interval"),
            [Schedule("interval") EXCEPT !.hasStart = TRUE, !.startDate = <<"s", "o", "o", "n">>,
                                         !.hasEvery = TRUE, !.every = 2],
            [Schedule("interval") EXCEPT !.hasEvery = TRUE, !.every = 2],
            [Schedule("interval") EXCEPT !.hasStart = TRUE,
                                         !.startDate = <<"2", "0", "2", "6", "-", "0", "2", "-", "0", "1">>]}

DateLists == {<<<<"2", "0", "2", "6", "-", "0", "2", "-", "1", "4">>, <<"2", "0", "2", "6", "-", "0", "2", "-", "2", "8">>>>, <<>>, <<<<"2", "0", "2", "6", "-", "2", "-", "1", "4">>, <<"2", "0", "2", "4", "-", "1", "2", "-", "0", "5">>>>}

DatesSchedules ==
    {[Schedule("dates") EXCEPT !.hasDates = TRUE, !.dates = ds] : ds \in DateLists}
      \cup {Schedule("dates")}

Schedules ==
    {NoSchedule, Schedule(""), Schedule("everyday"), Schedule("yearly")}
        \cup WeekdaySchedules \cup IntervalSchedules \cup DatesSchedules

IdleCalc ==
    /\ expression = StringExpr(<<>>)
    /\ fieldValues = <<>>
    /\ outcome = NotCalled

InitSched ==
    /\ pc = "ready"
    /\ schedule \in Schedules
    /\ date \in ValidDates
    /\ tzOffset \in TimeZones
    /\ scheduled = FALSE
    /\ IdleCalc
    /\ IdleCore
    /\ IdleExt

IsScheduled ==
    /\ pc = "ready"
    /\ scheduled' = isFieldScheduledForDate(schedule, date.year, date.month, date.day, tzOffset)
    /\ pc' = "done"
    /\ UNCHANGED <<expression, fieldValues, outcome, schedule, date, tzOffset>>
    /\ UNCHANGED <<fn, goals, schema, allFieldNames, ret>>
    /\ UNCHANGED extVars

NextSched == IsScheduled

SpecSched == InitSched /\ [][NextSched]_vars

(***************************************************************************)
(* computeDailyCompletion / computeMonthlyCompletion                       *)
(* (src/js/components/goal-manager.js)                                     *)
(*                                                                         *)
(* A stored goal state is "true", "false" or "other" (a truthy value that  *)
(* is not the boolean true, such as 1 or 'yes'); "undefined" is what a     *)
(* lookup of a missing key gives.                                          *)
(***************************************************************************)
FieldDef(type, hasCalc, sch) ==
    [isObject |-> TRUE, type |-> type, hasCalc |-> hasCalc, schedule |-> sch]

Section(name, fields) == [name |-> name, isObject |-> TRUE, fields |-> fields]

\* schema[sectionName]: the index of the section, 0 when it is undefined
SectionIndex(sc, sectionName) ==
    IF \E i \in 1..Len(sc.sections) : sc.sections[i].name = sectionName
    THEN CHOOSE i \in 1..Len(sc.sections) : sc.sections[i].name = sectionName
    ELSE 0

\* dailyGoals[goalName]
GoalState(g, goalName) ==
    IF \E i \in 1..Len(g.entries) : g.entries[i].name = goalName
    THEN g.entries[CHOOSE i \in 1..Len(g.entries) : g.entries[i].name = goalName].val
    ELSE "undefined"

\* val === true
Truthy(val) == val \in {"true", "other"}
StrictlyTrue(val) == val = "true"

\* !isFieldScheduledForDate(goalDef.schedule, year, month, day) -> continue
AlwaysScheduled(goalDef, year, month, day, tz) == TRUE
GoalScheduled(goalDef, year, month, day, tz) ==
    isFieldScheduledForDate(goalDef.schedule, year, month, day, tz)

\* the for loop of computeDailyCompletion over the first n entries
RECURSIVE DailyLoop(_, _, _, _, _, _, _)
DailyLoop(fields, n, g, year, month, day, tz) ==
    IF n = 0 THEN [totalGoals |-> 0, checked |-> 0]
    ELSE LET before == DailyLoop(fields, n - 1, g, year, month, day, tz)
             goalName == fields[n].name
             goalDef == fields[n].def
         IN  IF ~GoalScheduled(goalDef, year, month, day, tz) THEN before
             ELSE [totalGoals |-> before.totalGoals + 1,
                   checked |-> IF g.present /\ StrictlyTrue(GoalState(g, goalName))
                               THEN before.checked + 1 ELSE before.checked]

\* totalGoals > 0 ? checked / totalGoals : 0
UnguardedRatio(checked, totalGoals) == DivNum(Int2Num(checked), Int2Num(totalGoals))
GuardedRatio(checked, totalGoals) ==
    IF totalGoals > 0 THEN DivNum(Int2Num(checked), Int2Num(totalGoals)) ELSE Int2Num(0)

computeDailyCompletion(g, sc, year, month, day, tz) ==
    LET i == SectionIndex(sc, "Daily Goals") IN
    IF i = 0 THEN Int2Num(0)
    ELSE LET dailyGoalsDef == sc.sections[i].fields
             counts == DailyLoop(dailyGoalsDef, Len(dailyGoalsDef), g, year, month, day, tz)
         IN  GuardedRatio(counts.checked, counts.totalGoals)

\* the for loop of computeMonthlyCompletion over the first n values
RECURSIVE MonthlyLoop(_, _)
MonthlyLoop(entries, n) ==
    IF n = 0 THEN 0
    ELSE MonthlyLoop(entries, n - 1) + (IF StrictlyTrue(entries[n].val) THEN 1 ELSE 0)

computeMonthlyCompletion(g) ==
    IF ~g.present THEN Int2Num(0)
    ELSE IF Len(g.entries) = 0 THEN Int2Num(0)
    ELSE DivNum(Int2Num(MonthlyLoop(g.entries, Len(g.entries))), Int2Num(Len(g.entries)))

(***************************************************************************)
(* Inputs of the completion functions                                      *)
(***************************************************************************)
MaxGoals == 2    \* most goals of a drawn 'Daily Goals' section

GoalNames == <<"Exercise", "Read", "Meditate", "Journal", "Stretch", "Floss">>

\* schedules of the goals drawn: none, Monday/Wednesday/Friday, two dates
GoalSchedules ==
    {NoSchedule,
     [Schedule("weekdays") EXCEPT !.hasDays = TRUE, !.days = <<1, 3, 5>>],
     [Schedule("dates") EXCEPT !.hasDates = TRUE,
         !.dates = <<<<"2", "0", "2", "6", "-", "0", "2", "-", "1", "4">>, <<"2", "0", "2", "6", "-", "0", "2", "-", "2", "8">>>>]}

\* the 'Daily Goals' sections with n goals
GoalSections(n) ==
    {[i \in 1..n |-> [name |-> GoalNames[i], def |-> FieldDef("checkbox", FALSE, sch[i])]] :
        sch \in [1..n -> GoalSchedules]}

MetricsSection ==
    Section("Metrics", <<[name |-> "Weight", def |-> FieldDef("number", FALSE, NoSchedule)]>>)

\* schemas without a 'Daily Goals' section, with an empty one, with goals
GoalSchemas ==
    {[isObject |-> TRUE, sections |-> <<MetricsSection>>]}
      \cup {[isObject |-> TRUE, sections |-> <<MetricsSection, Section("Daily Goals", f)>>] :
               f \in UNION {GoalSections(n) : n \in 0..MaxGoals}}

StoredStates == {"true", "false", "other"}

\* the entries of a map with the keys K in the order of GoalNames
RECURSIVE EntriesOf(_, _, _)
EntriesOf(K, val, n) ==
    IF n = 0 THEN <<>>
    ELSE LET before == EntriesOf(K, val, n - 1)
         IN  IF n \in K THEN Append(before, [name |-> GoalNames[n], val |-> val[n]])
             ELSE before

\* null, and every map over the goal names drawn and one name more, which
\* no schema drawn defines
GoalMaps ==
    {NoGoals} \cup
    {[present |-> TRUE, entries |-> EntriesOf(K, val, MaxGoals + 1)] :
        K \in SUBSET (1..(MaxGoals + 1)), val \in [1..(MaxGoals + 1) -> StoredStates]}

\* Saturday 14 to Friday 20 February 2026
GoalDates == {[year |-> 2026, month |-> 2, day |-> d] : d \in 14..20}

(***************************************************************************)
(* describeSchedule (src/js/config.js)                                     *)
(*                                                                         *)
(* The text returned is the sequence of the pieces it is put together      *)
(* from: literals, day names, separators, digits.                          *)
(***************************************************************************)
dayNames == <<"Sun", "Mon", "Tue", "Wed", "Thu", "Fri", "Sat">>

\* dayNames[d]; join renders undefined as the empty string
DayName(d) == IF d \in 0..6 THEN dayNames[d + 1] ELSE ""

\* the comparator (a, b) => a - b
CompareDaysDescending(a, b) == b - a
CompareDays(a, b) == a - b

RECURSIVE InsertDay(_, _)
InsertDay(sorted, x) ==
    IF sorted = <<>> THEN <<x>>
    ELSE IF CompareDays(Head(sorted), x) <= 0
         THEN <<Head(sorted)>> \o InsertDay(Tail(sorted), x)
         ELSE <<x>> \o sorted

RECURSIVE SortDays(_)
SortDays(days) ==
    IF days = <<>> THEN <<>>
    ELSE InsertDay(SortDays(SubSeq(days, 1, Len(days) - 1)), days[Len(days)])

\* [...schedule.days].sort(...): the array sorted is a copy; arg is what the
\* days array of the schedule holds afterwards
SortedInPlace(days) == [arg |-> SortDays(days), sorted |-> SortDays(days)]
SortedCopy(days) == [arg |-> days, sorted |-> SortDays(days)]

\* Array.prototype.join
RECURSIVE Join(_, _)
Join(parts, sep) ==
    IF Len(parts) = 0 THEN <<>>
    ELSE IF Len(parts) = 1 THEN <<parts[1]>>
    ELSE Join(SubSeq(parts, 1, Len(parts) - 1), sep) \o <<sep, parts[Len(parts)]>>

\* ${schedule.every}
EveryText(sch) ==
    IF ~sch.hasEvery THEN <<"undefined">>
    ELSE IF sch.every < 0 THEN <<"-">> \o NumberToString(-sch.every)
    ELSE NumberToString(sch.every)

\* the weekdays branch is entered and gets as far as the sort
SortsDays(sch) ==
    /\ sch.present /\ sch.type = "weekdays" /\ sch.hasDays
    /\ Len(sch.days) # 0 /\ Len(sch.days) # 7

describeSchedule(sch) ==
    IF ~sch.present \/ sch.type = "" \/ sch.type = "everyday" THEN <<"Every day">>
    ELSE IF sch.type = "weekdays" /\ sch.hasDays
         THEN IF Len(sch.days) = 0 THEN <<"No days selected">>
              ELSE IF Len(sch.days) = 7 THEN <<"Every day">>
              ELSE LET sorted == SortedCopy(sch.days).sorted
                   IN  Join([i \in 1..Len(sorted) |-> DayName(sorted[i])], ", ")
    ELSE IF sch.type = "interval"
         THEN IF sch.hasEvery /\ sch.every = 1 THEN <<"Every day">>
              ELSE <<"Every ">> \o EveryText(sch) \o <<" days">>
    ELSE IF sch.type = "dates"
         THEN IF ~sch.hasDates \/ Len(sch.dates) = 0 THEN <<"No dates">>
              ELSE NumberToString(Len(sch.dates)) \o <<" specific date">>
                     \o (IF Len(sch.dates) > 1 THEN <<"s">> ELSE <<>>)
    ELSE <<"Every day">>

\* the schedule object after the call
ScheduleAfterDescribe(sch) ==
    IF SortsDays(sch) THEN [sch EXCEPT !.days = SortedCopy(sch.days).arg] ELSE sch

\* every arrangement of the elements of S
RECURSIVE Arrangements(_)
Arrangements(S) ==
    IF S = {} THEN {<<>>}
    ELSE UNION {{<<x>> \o p : p \in Arrangements(S \ {x})} : x \in S}

\* weekdays schedules with every selection of days of the week in every
\* order, and the schedules of the other kinds
DescribedSchedules ==
    {[Schedule("weekdays") EXCEPT !.hasDays = TRUE, !.days = ds] :
        ds \in UNION {Arrangements(S) : S \in SUBSET (0..6)}}
      \cup Schedules

(***************************************************************************)
(* getDependencies (src/js/utils/calc-engine.js)                           *)
(***************************************************************************)
\* expression.includes(name)
IncludesAtStart(str, name) == StartsWith(str, 0, name)
ExpressionIncludes(str, name) ==
    \E pos \in 0..Len(str) : StartsWith(str, pos, name)

\* allFieldNames.filter(...) over the first n names
RECURSIVE FilterNames(_, _, _)
FilterNames(fieldNames, n, str) ==
    IF n = 0 THEN <<>>
    ELSE LET before == FilterNames(fieldNames, n - 1, str)
         IN  IF ExpressionIncludes(str, fieldNames[n])
             THEN Append(before, fieldNames[n]) ELSE before

getDependencies(expr, fieldNames) ==
    IF expr.type # "string" \/ expr.str = <<>> THEN <<>>
    ELSE FilterNames(fieldNames, Len(fieldNames), expr.str)

\* lists of at most MaxKeys different names
NameLists ==
    {[i \in 1..Len(p) |-> NameOrder[p[i]]] :
        p \in UNION {Arrangements(K) : K \in {S \in SUBSET NameIndex : Cardinality(S) <= MaxKeys}}}

(***************************************************************************)
(* Calls of the core functions that take plain data                        *)
(***************************************************************************)
InitDaily ==
    /\ fn = "computeDailyCompletion"
    /\ goals \in GoalMaps
    /\ schema \in GoalSchemas
    /\ date \in GoalDates
    /\ schedule = NoSchedule /\ tzOffset = 0 /\ scheduled = FALSE
    /\ allFieldNames = <<>>
    /\ IdleCalc

InitMonthly ==
    /\ fn = "computeMonthlyCompletion"
    /\ goals \in GoalMaps
    /\ schema = NoSchema
    /\ allFieldNames = <<>>
    /\ IdleSchedule
    /\ IdleCalc

InitDescribe ==
    /\ fn = "describeSchedule"
    /\ schedule \in DescribedSchedules
    /\ date = [year |-> 2026, month |-> 1, day |-> 1] /\ tzOffset = 0 /\ scheduled = FALSE
    /\ goals = NoGoals /\ schema = NoSchema /\ allFieldNames = <<>>
    /\ IdleCalc

\* a missing expression is null or undefined
InitDependencies ==
    /\ fn = "getDependencies"
    /\ expression \in {StringExpr(s) : s \in FieldExpressions} \cup {[type |-> "null", str |-> <<>>]}
    /\ allFieldNames \in NameLists
    /\ fieldValues = <<>> /\ outcome = NotCalled
    /\ goals = NoGoals /\ schema = NoSchema
    /\ IdleSchedule

InitEvaluate ==
    /\ fn = "evaluate"
    /\ expression \in {StringExpr(s) : s \in Examples}
    /\ fieldValues \in FieldMaps
    /\ outcome = NotCalled
    /\ goals = NoGoals /\ schema = NoSchema /\ allFieldNames = <<>>
    /\ IdleSchedule

InitCore ==
    /\ pc = "ready"
    /\ ret = NoRet
    /\ IdleExt
    /\ (InitDaily \/ InitMonthly \/ InitDescribe \/ InitDependencies \/ InitEvaluate)

ComputeDaily ==
    /\ pc = "ready" /\ fn = "computeDailyCompletion"
    /\ ret' = [NoRet EXCEPT !.ratio =
                  computeDailyCompletion(goals, schema, date.year, date.month, date.day, tzOffset)]
    /\ pc' = "done"
    /\ UNCHANGED <<expression, fieldValues, outcome, schedule, date, tzOffset, scheduled>>
    /\ UNCHANGED <<fn, goals, schema, allFieldNames>>
    /\ UNCHANGED extVars

ComputeMonthly ==
    /\ pc = "ready" /\ fn = "computeMonthlyCompletion"
    /\ ret' = [NoRet EXCEPT !.ratio = computeMonthlyCompletion(goals)]
    /\ pc' = "done"
    /\ UNCHANGED <<expression, fieldValues, outcome, schedule, date, tzOffset, scheduled>>
    /\ UNCHANGED <<fn, goals, schema, allFieldNames>>
    /\ UNCHANGED extVars

DescribeSchedule ==
    /\ pc = "ready" /\ fn = "describeSchedule"
    /\ ret' = [NoRet EXCEPT !.list = describeSchedule(schedule)]
    /\ schedule' = ScheduleAfterDescribe(schedule)
    /\ pc' = "done"
    /\ UNCHANGED <<expression, fieldValues, outcome, date, tzOffset, scheduled>>
    /\ UNCHANGED <<fn, goals, schema, allFieldNames>>
    /\ UNCHANGED extVars

GetDependencies ==
    /\ pc = "ready" /\ fn = "getDependencies"
    /\ ret' = [NoRet EXCEPT !.list = getDependencies(expression, allFieldNames)]
    /\ pc' = "done"
    /\ UNCHANGED <<expression, fieldValues, outcome, schedule, date, tzOffset, scheduled>>
    /\ UNCHANGED <<fn, goals, schema, allFieldNames>>
    /\ UNCHANGED extVars

EvaluateCall == fn = "evaluate" /\ Evaluate

NextCore ==
    \/ ComputeDaily
    \/ ComputeMonthly
    \/ DescribeSchedule
    \/ GetDependencies
    \/ EvaluateCall

SpecCore == InitCore /\ [][NextCore]_vars

(***************************************************************************)
(* validateSchema (src/js/schema/schema-manager.js)                        *)
(*                                                                         *)
(* An error message is modelled by what it reports and about which field.  *)
(***************************************************************************)
validTypes == {"time", "number", "checkbox", "velocity", "text"}
validScheduleTypes == {"everyday", "weekdays", "interval", "dates"}

Error(kind, sectionName, fieldName) ==
    [kind |-> kind, section |-> sectionName, field |-> fieldName]

\* the position behind n digits that start at pos (counted from 0), -1 when
\* there are not n digits: \d{n}
MatchDigits(str, pos, n) ==
    IF pos >= 0 /\ pos + n <= Len(str) /\ \A i \in 1..n : IsDigit(str[pos + i])
    THEN pos + n ELSE -1

\* the position behind the hyphen at pos, -1 when there is none
MatchHyphen(str, pos) ==
    IF pos >= 0 /\ pos + 1 <= Len(str) /\ str[pos + 1] = "-" THEN pos + 1 ELSE -1

\* /^\d{4}-\d{2}-\d{2}$/.test(str)
DateFormTest(str) ==
    MatchDigits(str, MatchHyphen(str, MatchDigits(str, MatchHyphen(str, MatchDigits(str, 0, 4)), 2)), 2)
        = Len(str)

\* d < 0 || d > 6
AboveSeven(d) == d < 0 \/ d > 7
DayOutOfRange(d) == d < 0 \/ d > 6

TypeErrors(def, sectionName, fieldName) ==
    IF def.type = "" THEN <<Error("missing type", sectionName, fieldName)>>
    ELSE IF def.type \notin validTypes THEN <<Error("invalid type", sectionName, fieldName)>>
    ELSE <<>>

CalculationErrors(def, sectionName, fieldName) ==
    IF def.type = "velocity" /\ ~def.hasCalc
    THEN <<Error("missing calculation", sectionName, fieldName)>>
    ELSE <<>>

WeekdaysErrors(s, sectionName, fieldName) ==
    IF s.type # "weekdays" THEN <<>>
    ELSE IF ~s.hasDays THEN <<Error("missing days array", sectionName, fieldName)>>
    ELSE IF \E i \in 1..Len(s.days) : DayOutOfRange(s.days[i])
         THEN <<Error("invalid day values", sectionName, fieldName)>>
    ELSE <<>>

IntervalErrors(s, sectionName, fieldName) ==
    IF s.type # "interval" THEN <<>>
    ELSE (IF ~s.hasEvery \/ s.every = 0 \/ s.every < 1
          THEN <<Error("every not >= 1", sectionName, fieldName)>> ELSE <<>>)
         \o (IF ~s.hasStart \/ s.startDate = <<>> \/ ~DateFormTest(s.startDate)
             THEN <<Error("invalid startDate", sectionName, fieldName)>> ELSE <<>>)

DatesErrors(s, sectionName, fieldName) ==
    IF s.type # "dates" THEN <<>>
    ELSE IF ~s.hasDates THEN <<Error("missing dates array", sectionName, fieldName)>>
    ELSE IF \E i \in 1..Len(s.dates) : ~DateFormTest(s.dates[i])
         THEN <<Error("invalid date values", sectionName, fieldName)>>
    ELSE <<>>

ScheduleErrors(def, sectionName, fieldName) ==
    LET s == def.schedule IN
    IF s.present /\ s.type # "" /\ s.type # "everyday"
    THEN (IF s.type \notin validScheduleTypes
          THEN <<Error("invalid schedule type", sectionName, fieldName)>> ELSE <<>>)
         \o WeekdaysErrors(s, sectionName, fieldName)
         \o IntervalErrors(s, sectionName, fieldName)
         \o DatesErrors(s, sectionName, fieldName)
    ELSE <<>>

\* the body of the loop over the fields of a section
FieldErrors(field, sectionName) ==
    IF ~field.def.isObject THEN <<Error("field must be an object", sectionName, field.name)>>
    ELSE TypeErrors(field.def, sectionName, field.name)
         \o CalculationErrors(field.def, sectionName, field.name)
         \o ScheduleErrors(field.def, sectionName, field.name)

\* the errors pushed for the first n fields of a section
RECURSIVE FieldsLoop(_, _, _)
FieldsLoop(fields, n, sectionName) ==
    IF n = 0 THEN <<>>
    ELSE FieldsLoop(fields, n - 1, sectionName) \o FieldErrors(fields[n], sectionName)

\* the errors pushed for the first n sections
RECURSIVE SectionsLoop(_, _)
SectionsLoop(sections, n) ==
    IF n = 0 THEN <<>>
    ELSE SectionsLoop(sections, n - 1) \o
         (IF ~sections[n].isObject
          THEN <<Error("section must be an object", sections[n].name, "")>>
          ELSE FieldsLoop(sections[n].fields, Len(sections[n].fields), sections[n].name))

validateSchema(sc) ==
    IF ~sc.isObject
    THEN [valid |-> FALSE, errors |-> <<Error("Schema must be an object", "", "")>>]
    ELSE LET errors == SectionsLoop(sc.sections, Len(sc.sections))
         IN  [valid |-> Len(errors) = 0, errors |-> errors]

(***************************************************************************)
(* Inputs of validateSchema                                                *)
(***************************************************************************)
MaxFields == 2   \* most fields of a drawn section

FieldNamePool == <<"Squat", "Pace", "Sleep", "Mood">>

ValidatedSchedules ==
    {Schedule("everyday"), Schedule("yearly"), Schedule("weekdays")}
      \cup {[Schedule("weekdays") EXCEPT !.hasDays = TRUE, !.days = ds] :
               ds \in {<<1, 3, 5>>, <<>>, <<7>>, <<2, -1>>}}
      \cup {[Schedule("interval") EXCEPT !.hasEvery = e[1], !.every = e[2],
                                         !.hasStart = sd[1], !.startDate = sd[2]] :
               e \in {<<FALSE, 0>>, <<TRUE, 0>>, <<TRUE, 2>>},
               sd \in {<<FALSE, <<>> >>,
                       <<TRUE, <<"2", "0", "2", "6", "-", "0", "2", "-", "0", "1">> >>,
                       <<TRUE, <<"2", "0", "2", "6", "-", "2", "-", "1">> >>}}
      \cup {[Schedule("dates") EXCEPT !.hasDates = TRUE, !.dates = ds] :
               ds \in {<<>>,
                       << <<"2", "0", "2", "6", "-", "0", "2", "-", "1", "4">> >>,
                       << <<"2", "0", "2", "6", "-", "0", "2", "-", "1", "4">>,
                          <<"b", "a", "d", "-", "d", "a", "t", "e">> >>,
                       << <<"2", "0", "2", "6", "-", "0", "2", "-", "1", "4", "T">> >>}}
      \cup {Schedule("dates")}

ValidatedDefs ==
    {FieldDef(type, hasCalc, NoSchedule) :
        type \in {"", "number", "velocity", "magic"}, hasCalc \in BOOLEAN}
      \cup {FieldDef("number", FALSE, s) : s \in ValidatedSchedules}
      \cup {[FieldDef("", FALSE, NoSchedule) EXCEPT !.isObject = FALSE]}

\* the lists of at most max fields
FieldLists(max) ==
    UNION {{[i \in 1..n |-> [name |-> FieldNamePool[i], def |-> d[i]]] :
               d \in [1..n -> ValidatedDefs]} : n \in 0..max}

NotASection == [name |-> "Notes", isObject |-> FALSE, fields |-> <<>>]

\* null or a string; one section; a section that is not an object, alone
\* and before a section with one field
ValidatedSchemas(max) ==
    {NoSchema}
      \cup {[isObject |-> TRUE, sections |-> <<Section("Fitness", f)>>] : f \in FieldLists(max)}
      \cup {[isObject |-> TRUE, sections |-> <<NotASection>>]}
      \cup {[isObject |-> TRUE, sections |-> <<NotASection, Section("Fitness", f)>>] :
               f \in FieldLists(1) \ {<<>>}}

InitValidate ==
    /\ pc = "ready"
    /\ fn = "validateSchema"
    /\ schema \in ValidatedSchemas(MaxFields)
    /\ goals = NoGoals /\ allFieldNames = <<>> /\ ret = NoRet
    /\ IdleSchedule
    /\ IdleCalc
    /\ IdleExt

ValidateSchema ==
    /\ pc = "ready" /\ fn = "validateSchema"
    /\ LET result == validateSchema(schema)
       IN  ret' = [NoRet EXCEPT !.valid = result.valid, !.list = result.errors]
    /\ pc' = "done"
    /\ UNCHANGED <<expression, fieldValues, outcome, schedule, date, tzOffset, scheduled>>
    /\ UNCHANGED <<fn, goals, schema, allFieldNames>>
    /\ UNCHANGED extVars

NextValidate == ValidateSchema

SpecValidate == InitValidate /\ [][NextValidate]_vars

(***************************************************************************)
(* toDateId / parseDateId (src/js/utils/date-utils.js)                     *)
(***************************************************************************)
\* String(n).padStart(2, '0')
Unpadded(str) == str
PadTwo(str) ==
    IF Len(str) = 0 THEN <<"0", "0">>
    ELSE IF Len(str) = 1 THEN <<"0">> \o str
    ELSE str

toDateId(year, month, day) ==
    NumberToString(year) \o <<"-">> \o PadTwo(NumberToString(month))
        \o <<"-">> \o PadTwo(NumberToString(day))

\* str.split(sep) for a separator of one character
RECURSIVE Split(_, _)
Split(str, sep) ==
    IF \E i \in 1..Len(str) : str[i] = sep
    THEN LET i == CHOOSE k \in 1..Len(str) :
                      str[k] = sep /\ \A j \in 1..(k - 1) : str[j] # sep
         IN  <<SubSeq(str, 1, i - 1)>> \o Split(SubSeq(str, i + 1, Len(str)), sep)
    ELSE <<str>>

\* parseInt(str): leading white space and a sign are skipped, the digits
\* that follow are read in base ten, NaN when there is none
ParseInt(str) ==
    LET s == TrimStart(str)
        signed == Len(s) > 0 /\ s[1] \in {"+", "-"}
        from == IF signed THEN 1 ELSE 0
        n == DigitRun(s, from)
    IN  IF n = 0 THEN NaN
        ELSE IF signed /\ s[1] = "-" THEN Int2Num(-DigitsValue(s, from, n))
        ELSE Int2Num(DigitsValue(s, from, n))

\* parts[i], undefined when the array is shorter
PartAt(parts, i) == IF i <= Len(parts) THEN parts[i] ELSE <<>>

parseDateId(id) ==
    LET parts == Split(id, "-")
    IN  [year |-> ParseInt(PartAt(parts, 1)),
         month |-> ParseInt(PartAt(parts, 2)),
         day |-> ParseInt(PartAt(parts, 3))]

\* four-digit years, the first and the last among them
IdYears == {1000, 2024, 2026, 9999}

IdDates == {[year |-> y, month |-> m, day |-> d] : y \in IdYears, m \in 1..12, d \in 1..31}

InitDate ==
    /\ pc = "ready"
    /\ fn = "toDateId"
    /\ date \in IdDates
    /\ IdleDate
    /\ IdleMore
    /\ schedule = NoSchedule /\ tzOffset = 0 /\ scheduled = FALSE
    /\ goals = NoGoals /\ schema = NoSchema /\ allFieldNames = <<>> /\ ret = NoRet
    /\ IdleCalc

ToDateId ==
    /\ pc = "ready" /\ fn = "toDateId"
    /\ dateId' = toDateId(date.year, date.month, date.day)
    /\ pc' = "formatted"
    /\ UNCHANGED <<expression, fieldValues, outcome, schedule, date, tzOffset, scheduled>>
    /\ UNCHANGED <<fn, goals, schema, allFieldNames, ret, parsed>>
    /\ UNCHANGED moreVars

ParseDateId ==
    /\ pc = "formatted" /\ fn = "toDateId"
    /\ parsed' = parseDateId(dateId)
    /\ pc' = "done"
    /\ UNCHANGED <<expression, fieldValues, outcome, schedule, date, tzOffset, scheduled>>
    /\ UNCHANGED <<fn, goals, schema, allFieldNames, ret, dateId>>
    /\ UNCHANGED moreVars

NextDate == ToDateId \/ ParseDateId

SpecDate == InitDate /\ [][NextDate]_vars

(***************************************************************************)
(* evaluate with field values that are not finite numbers                  *)
(***************************************************************************)
NonFiniteAlphabet == {"T", "R", "-", "*", "/", "2"}

\* a number, null, a text that parseFloat does not read, NaN, the infinities
StoredValues == {Int2Num(5), Null, Text, NaN, Inf(1), Inf(-1)}

\* maps with the keys T and R, each present or not
ValueMaps ==
    {<<>>}
      \cup {<<[name |-> <<"T">>, val |-> v]>> : v \in StoredValues}
      \cup {<<[name |-> <<"R">>, val |-> v]>> : v \in StoredValues}
      \cup {<<[name |-> <<"T">>, val |-> v], [name |-> <<"R">>, val |-> w]>> :
               v \in StoredValues, w \in StoredValues}

InitNonFinite ==
    /\ pc = "ready"
    /\ expression \in {StringExpr(s) : s \in StringsOver(NonFiniteAlphabet, MaxFieldLen)}
    /\ fieldValues \in ValueMaps
    /\ outcome = NotCalled
    /\ IdleSchedule
    /\ IdleCore
    /\ IdleExt

SpecNonFinite == InitNonFinite /\ [][Next]_vars

(***************************************************************************)
(* An entry edited in the daily entry view and in the monthly data grid    *)
(* (src/js/views/daily-entry-view.js, the data grid of the monthly view),  *)
(* with the schema editor saving another schema in between                 *)
(* (src/js/views/setup-view.js).                                           *)
(***************************************************************************)
\* schema['Daily Goals'] as a list of fields, empty when it is undefined
GoalFields(sc) ==
    LET i == SectionIndex(sc, "Daily Goals")
    IN  IF i = 0 THEN <<>> ELSE sc.sections[i].fields

createEmptyDailyGoals(sc) ==
    [present |-> TRUE,
     entries |-> [j \in 1..Len(GoalFields(sc)) |->
                     [name |-> GoalFields(sc)[j].name, val |-> "false"]]]

\* the entry made for a date that has none stored
FreshEntry(sc) ==
    [dailyGoals |-> createEmptyDailyGoals(sc),
     dailyGoalCompletion |-> Int2Num(0),
     fields |-> Null]

\* entry.dailyGoals[name] = val
SetGoal(g, name, val) ==
    IF \E i \in 1..Len(g.entries) : g.entries[i].name = name
    THEN [g EXCEPT !.entries =
            [i \in 1..Len(g.entries) |->
                IF g.entries[i].name = name THEN [name |-> name, val |-> val]
                ELSE g.entries[i]]]
    ELSE [present |-> TRUE, entries |-> Append(g.entries, [name |-> name, val |-> val])]

\* entry.dailyGoals?.[field.name] || false, what the checkbox shows
Shown(g, name) == g.present /\ GoalState(g, name) = "true"

\* the value the change event of a checkbox that showed v delivers
Toggled(v) == IF v THEN "false" ELSE "true"

\* entry.dailyGoalCompletion = computeDailyCompletion(entry.dailyGoals, schema, ...)
Recomputed(e, sc, d, tz) ==
    [e EXCEPT !.dailyGoalCompletion =
        computeDailyCompletion(e.dailyGoals, sc, d.year, d.month, d.day, tz)]

\* the entry e handed to the save helper or callback named by
HandedOver(by, e) == [handed |-> TRUE, by |-> by, doc |-> e]

\* values typed into the field of the 'Metrics' section
FieldInputs == {Null, Int2Num(5)}

\* Sunday 15 to Tuesday 17 February 2026
EntryDates == {[year |-> 2026, month |-> 2, day |-> d] : d \in 15..17}

InitEntry ==
    /\ pc = "ready"
    /\ fn = "entry"
    /\ schema \in GoalSchemas
    /\ date \in EntryDates
    /\ entry = FreshEntry(schema)
    /\ saved = NotSaved
    /\ schedule = NoSchedule /\ tzOffset = 0 /\ scheduled = FALSE
    /\ goals = NoGoals /\ allFieldNames = <<>> /\ ret = NoRet
    /\ IdleCalc
    /\ IdleDate
    /\ IdleSection
    /\ IdleSync

EntryFrame ==
    /\ UNCHANGED <<pc, expression, fieldValues, outcome, schedule, date, tzOffset, scheduled>>
    /\ UNCHANGED <<fn, goals, allFieldNames, ret>>
    /\ UNCHANGED <<dateVars, calcVars, syncVars>>

\* the checkbox of a daily goal in the daily entry view, then saveEntry
DailyGoalChange ==
    /\ fn = "entry"
    /\ \E i \in 1..Len(GoalFields(schema)) :
          LET field == GoalFields(schema)[i] IN
          /\ isFieldScheduledForDate(field.def.schedule, date.year, date.month, date.day, tzOffset)
          /\ entry' = Recomputed(
                 [entry EXCEPT !.dailyGoals =
                     SetGoal(entry.dailyGoals, field.name,
                             Toggled(Shown(entry.dailyGoals, field.name)))],
                 schema, date, tzOffset)
    /\ saved' = HandedOver("saveEntry", entry')
    /\ UNCHANGED schema
    /\ EntryFrame

\* the input of a field in the daily entry view, then saveEntry
DailyFieldChange ==
    /\ fn = "entry"
    /\ \E newVal \in FieldInputs :
          entry' = Recomputed([entry EXCEPT !.fields = newVal], schema, date, tzOffset)
    /\ saved' = HandedOver("saveEntry", entry')
    /\ UNCHANGED schema
    /\ EntryFrame

\* the checkbox of a daily goal in the data grid, then onEntryChange
GridGoalChange ==
    /\ fn = "entry"
    /\ \E i \in 1..Len(GoalFields(schema)) :
          LET field == GoalFields(schema)[i] IN
          /\ isFieldScheduledForDate(field.def.schedule, date.year, date.month, date.day, tzOffset)
          /\ entry' = Recomputed(
                 [entry EXCEPT !.dailyGoals =
                     SetGoal(entry.dailyGoals, field.name,
                             Toggled(Shown(entry.dailyGoals, field.name)))],
                 schema, date, tzOffset)
    /\ saved' = HandedOver("onEntryChange", entry')
    /\ UNCHANGED schema
    /\ EntryFrame

\* the input of a field in the data grid, then onEntryChange: the
\* completion is left as it was
GridFieldChange ==
    /\ fn = "entry"
    /\ \E newVal \in FieldInputs :
          entry' = [entry EXCEPT !.fields = newVal]
    /\ saved' = HandedOver("onEntryChange", entry')
    /\ UNCHANGED schema
    /\ EntryFrame

\* the schema editor saves another schema; the stored entry stays
SaveSchema ==
    /\ fn = "entry"
    /\ schema' \in GoalSchemas \ {schema}
    /\ validateSchema(schema').valid
    /\ UNCHANGED entryVars
    /\ EntryFrame

NextEntry ==
    \/ DailyGoalChange
    \/ DailyFieldChange
    \/ GridGoalChange
    \/ GridFieldChange
    \/ SaveSchema

SpecEntry == InitEntry /\ [][NextEntry]_vars

(***************************************************************************)
(* computeCalcField (src/js/views/daily-entry-view.js, and the same        *)
(* function of the data grid) with FIELD_TYPES.time.toNumber               *)
(* (src/js/schema/field-types.js).                                         *)
(*                                                                         *)
(* A value stored in the entry is [k, num, str]: null, undefined, a number *)
(* num, or the string str.                                                 *)
(***************************************************************************)
RawNull == [k |-> "null", num |-> Null, str |-> <<>>]
RawUndefined == [k |-> "undefined", num |-> Null, str |-> <<>>]
RawNumber(n) == [k |-> "num", num |-> Int2Num(n), str |-> <<>>]
RawString(s) == [k |-> "string", num |-> Null, str |-> s]

\* fval !== null && fval !== undefined && fval !== ''
HasValue(fval) ==
    /\ fval.k # "null"
    /\ fval.k # "undefined"
    /\ ~(fval.k = "string" /\ fval.str = <<>>)

\* FIELD_TYPES.time.toNumber of a string (a time field holds a string or
\* null: parseInput of the time type returns nothing else)
timeToNumber(value) ==
    IF value.k # "string" \/ value.str = <<>> THEN Null
    ELSE LET parts == Split(value.str, ":")
         IN  AddNum(MulNum(ParseInt(PartAt(parts, 1)), Int2Num(60)),
                    ParseInt(PartAt(parts, 2)))

\* parseFloat of a stored value: a number is itself, of a string the
\* leading decimal literal after white space and a sign is read
ParseFloatStored(fval) ==
    IF fval.k = "num" THEN fval.num
    ELSE IF fval.k # "string" THEN NaN
    ELSE LET s == TrimStart(fval.str)
             signed == Len(s) > 0 /\ s[1] \in {"+", "-"}
             from == IF signed THEN 1 ELSE 0
         IN  IF DigitRun(s, from) = 0 THEN NaN
             ELSE IF signed /\ s[1] = "-" THEN NegNum(NumberMatch(s, from).val)
             ELSE NumberMatch(s, from).val

\* fieldDefs[fname]?.type
TypeOf(fieldDefs, fname) ==
    IF \E i \in 1..Len(fieldDefs) : fieldDefs[i].name = fname
    THEN fieldDefs[CHOOSE i \in 1..Len(fieldDefs) : fieldDefs[i].name = fname].type
    ELSE "undefined"

\* values[fname] = v
SetValue(values, fname, v) ==
    IF HasKey(values, fname)
    THEN [i \in 1..Len(values) |->
            IF values[i].name = fname THEN [name |-> fname, val |-> v] ELSE values[i]]
    ELSE Append(values, [name |-> fname, val |-> v])

\* for (const fname of Object.keys(fieldDefs)) values[fname] = null
InitialValues(fieldDefs) ==
    [i \in 1..Len(fieldDefs) |-> [name |-> fieldDefs[i].name, val |-> Null]]

\* the loop over Object.entries(sectionFields), for its first n entries
RECURSIVE ValuesLoop(_, _, _)
ValuesLoop(fieldDefs, sectionFields, n) ==
    IF n = 0 THEN InitialValues(fieldDefs)
    ELSE LET values == ValuesLoop(fieldDefs, sectionFields, n - 1)
             fname == sectionFields[n].name
             fval == sectionFields[n].val
         IN  IF ~HasValue(fval) THEN values
             ELSE IF TypeOf(fieldDefs, fname) = "time"
                  THEN SetValue(values, fname, timeToNumber(fval))
                  ELSE SetValue(values, fname, ParseFloatStored(fval))

\* computeCalcField: the value map built and what evaluate did with it
computeCalcField(calculation, sectionFields, fieldDefs) ==
    IF calculation.type # "string" \/ calculation.str = <<>>
    THEN [values |-> <<>>, result |-> Returned(Null)]
    ELSE LET values == ValuesLoop(fieldDefs, sectionFields, Len(sectionFields))
         IN  [values |-> values, result |-> evaluate(calculation, values)]

\* the fields a section may define, in key order: one with the empty name,
\* the time field T, the number field R
CalcFields ==
    <<[name |-> <<>>, type |-> "number"],
      [name |-> <<"T">>, type |-> "time"],
      [name |-> <<"R">>, type |-> "number"]>>

\* the elements of seq at the indices of K, in order
Picked(seq, K) ==
    LET idx == SelectSeq([i \in 1..Len(seq) |-> i], LAMBDA i : i \in K)
    IN  [j \in 1..Len(idx) |-> seq[idx[j]]]

FieldDefLists == {Picked(CalcFields, K) : K \in SUBSET (1..Len(CalcFields))}

\* what the entry may hold for each of them
StoredPool ==
    <<{RawNull, RawNumber(5)},
      {RawNull, RawString(<<>>), RawString(<<"7", ":", "0", "5">>),
       RawString(<<"1", "2", ":", "3", "0">>)},
      {RawNull, RawUndefined, RawString(<<>>), RawNumber(5), RawNumber(0),
       RawString(<<"a", "b", "c">>)}>>

StoredLists ==
    {Picked([i \in 1..Len(CalcFields) |-> [name |-> CalcFields[i].name, val |-> v[i]]], K) :
        K \in SUBSET (1..Len(CalcFields)),
        v \in [1..Len(CalcFields) -> UNION {StoredPool[i] : i \in 1..Len(CalcFields)}]}

\* operands of the formulas drawn: the fields T and R, the name X that the
\* section does not define, the literal 2
Operands == {<<"T">>, <<"R">>, <<"X">>, <<"2">>}

Formula(a, op, b) == a \o <<" ", op, " ">> \o b

Formulas == Operands \cup {Formula(a, op, b) : a \in Operands, op \in OperatorChars, b \in Operands}

InitCalcField ==
    /\ pc = "ready"
    /\ fn = "computeCalcField"
    /\ expression \in {StringExpr(f) : f \in Formulas \cup {<<>>}}
    /\ section \in {[defs |-> d, stored |-> st] : d \in FieldDefLists, st \in
          {st \in StoredLists : \A i \in 1..Len(st) :
              st[i].val \in StoredPool[CHOOSE j \in 1..Len(CalcFields) :
                                          CalcFields[j].name = st[i].name]}}
    /\ fieldValues = <<>>
    /\ outcome = NotCalled
    /\ IdleSchedule
    /\ goals = NoGoals /\ schema = NoSchema /\ allFieldNames = <<>> /\ ret = NoRet
    /\ IdleDate
    /\ IdleEntry
    /\ IdleSync

ComputeCalcField ==
    /\ pc = "ready" /\ fn = "computeCalcField"
    /\ LET r == computeCalcField(expression, section.stored, section.defs)
       IN  fieldValues' = r.values /\ outcome' = r.result
    /\ pc' = "done"
    /\ UNCHANGED <<expression, schedule, date, tzOffset, scheduled>>
    /\ UNCHANGED <<fn, goals, schema, allFieldNames, ret>>
    /\ UNCHANGED <<dateVars, entryVars, calcVars, syncVars>>

NextCalcField == ComputeCalcField

SpecCalcField == InitCalcField /\ [][NextCalcField]_vars

(***************************************************************************)
(* SyncEngine (src/js/db/mock-data.js) over the entries of IndexedDB       *)
(* (src/js/db/local-store.js) and of MongoDB.                              *)
(*                                                                         *)
(* A document is [present, ver, updatedAt]: ver is the time its content    *)
(* was written by a user, updatedAt the stamp it carries.  A mutation of   *)
(* the sync queue is [docId, data].  pushPending is cut at its awaits:     *)
(* reading the queue, each replaceOne, clearing the queue; pullAll is one  *)
(* step.                                                                   *)
(***************************************************************************)
MaxClock == 3    \* writes by users, on this device and on others

Doc(ver, updatedAt) == [present |-> TRUE, ver |-> ver, updatedAt |-> updatedAt]

\* the Map 'latest' of pushPending after the first n items of the queue:
\* one mutation for each collection:docId, the last one, in the order in
\* which the keys were first set
RECURSIVE Latest(_, _)
Latest(queue, n) ==
    IF n = 0 THEN <<>>
    ELSE LET before == Latest(queue, n - 1)
             item == queue[n]
         IN  IF \E i \in 1..Len(before) : before[i].docId = item.docId
             THEN [i \in 1..Len(before) |->
                      IF before[i].docId = item.docId THEN item ELSE before[i]]
             ELSE Append(before, item)

\* !localEntry || remoteEntry.updatedAt > (localEntry.updatedAt || '')
RemoteWins(localDoc, remoteDoc) ==
    ~localDoc.present \/ remoteDoc.updatedAt > localDoc.updatedAt

\* the local documents after pullAll: putEntry stamps what it stores
Pulled(st, now) ==
    [d \in Docs |->
        IF st.remote[d].present /\ RemoteWins(st.local[d], st.remote[d])
        THEN Doc(st.remote[d].ver, now)
        ELSE st.local[d]]

\* pushPending up to its first replaceOne: e is the engine, queue what
\* getSyncQueue returns, whole tells whether fullSync awaits the call
PushPendingStart(e, queue, whole) ==
    IF e.pushing \/ ~e.online
    THEN [e EXCEPT !.full = IF whole THEN "skipped" ELSE @]
    ELSE IF Len(queue) = 0
    THEN [e EXCEPT !.full = IF whole THEN "done" ELSE @]
    ELSE [e EXCEPT !.pushing = TRUE, !.sending = TRUE,
                   !.batch = Latest(queue, Len(queue)),
                   !.full = IF whole THEN "pushing" ELSE @]

SyncFrame ==
    /\ UNCHANGED <<pc, expression, fieldValues, outcome, schedule, date, tzOffset, scheduled>>
    /\ UNCHANGED <<fn, goals, schema, allFieldNames, ret>>
    /\ UNCHANGED <<dateVars, entryVars, calcVars>>

InitSync ==
    /\ pc = "ready"
    /\ fn = "SyncEngine"
    /\ IdleSync
    /\ IdleSchedule
    /\ goals = NoGoals /\ schema = NoSchema /\ allFieldNames = <<>> /\ ret = NoRet
    /\ IdleCalc
    /\ IdleDate
    /\ IdleEntry
    /\ IdleSection

\* saveEntry: putEntry stamps and stores the document, schedulePush adds
\* the mutation to the queue and sets the timer again
SaveEntry ==
    /\ fn = "SyncEngine"
    /\ clock < MaxClock
    /\ \E d \in Docs :
          LET doc == Doc(clock + 1, clock + 1)
              mutation == [docId |-> d, data |-> doc]
          IN  /\ store' = [store EXCEPT !.local[d] = doc,
                                       !.syncQueue = Append(@, mutation)]
              /\ log' = [log EXCEPT !.enqueued = @ \cup {mutation}]
    /\ clock' = clock + 1
    /\ engine' = [engine EXCEPT !.pushTimer = TRUE]
    /\ SyncFrame

\* another device replaces the document in MongoDB
RemoteWrite ==
    /\ fn = "SyncEngine"
    /\ clock < MaxClock
    /\ \E d \in Docs : store' = [store EXCEPT !.remote[d] = Doc(clock + 1, clock + 1)]
    /\ clock' = clock + 1
    /\ UNCHANGED <<engine, log>>
    /\ SyncFrame

\* the timer of schedulePush calls pushPending
TimerFires ==
    /\ fn = "SyncEngine"
    /\ engine.pushTimer
    /\ engine' = PushPendingStart([engine EXCEPT !.pushTimer = FALSE], store.syncQueue, FALSE)
    /\ UNCHANGED <<store, clock, log>>
    /\ SyncFrame

\* the 'online' event calls pushPending
GoOnline ==
    /\ fn = "SyncEngine"
    /\ ~engine.online
    /\ engine' = PushPendingStart([engine EXCEPT !.online = TRUE], store.syncQueue, FALSE)
    /\ UNCHANGED <<store, clock, log>>
    /\ SyncFrame

GoOffline ==
    /\ fn = "SyncEngine"
    /\ engine.online
    /\ engine' = [engine EXCEPT !.online = FALSE]
    /\ UNCHANGED <<store, clock, log>>
    /\ SyncFrame

\* one replaceOne of pushPending: the document in MongoDB is replaced by
\* the data of the mutation
PushSend ==
    /\ fn = "SyncEngine"
    /\ engine.sending /\ engine.batch # <<>> /\ engine.online
    /\ LET mutation == Head(engine.batch)
       IN  /\ store' = [store EXCEPT !.remote[mutation.docId] = mutation.data]
           /\ log' = [log EXCEPT !.sent = @ \cup {mutation}]
    /\ engine' = [engine EXCEPT !.batch = Tail(@)]
    /\ UNCHANGED clock
    /\ SyncFrame

\* a replaceOne of pushPending fails: pushing stops, the queue is kept
PushFail ==
    /\ fn = "SyncEngine"
    /\ engine.sending /\ engine.batch # <<>>
    /\ engine' = [engine EXCEPT !.pushing = FALSE, !.sending = FALSE, !.batch = <<>>,
                                !.full = IF @ = "pushing" THEN "failed" ELSE @]
    /\ UNCHANGED <<store, clock, log>>
    /\ SyncFrame

\* every replaceOne of pushPending succeeded: clearSyncQueue empties the
\* store of the queue
PushClear ==
    /\ fn = "SyncEngine"
    /\ engine.sending /\ engine.batch = <<>>
    /\ store' = [store EXCEPT !.syncQueue = <<>>]
    /\ engine' = [engine EXCEPT !.pushing = FALSE, !.sending = FALSE,
                                !.full = IF @ = "pushing" THEN "done" ELSE @]
    /\ UNCHANGED <<clock, log>>
    /\ SyncFrame

\* fullSync: pullAll
FullSyncPull ==
    /\ fn = "SyncEngine"
    /\ engine.full \notin {"pulled", "pushing"}
    /\ IF engine.online
       THEN /\ store' = [store EXCEPT !.local = Pulled(store, clock)]
            /\ engine' = [engine EXCEPT !.full = "pulled"]
            /\ log' = [log EXCEPT !.before = [local |-> store.local, remote |-> store.remote]]
       ELSE /\ engine' = [engine EXCEPT !.full = "skipped"]
            /\ UNCHANGED <<store, log>>
    /\ UNCHANGED clock
    /\ SyncFrame

\* fullSync: pushPending after pullAll
FullSyncPush ==
    /\ fn = "SyncEngine"
    /\ engine.full = "pulled"
    /\ engine' = PushPendingStart(engine, store.syncQueue, TRUE)
    /\ UNCHANGED <<store, clock, log>>
    /\ SyncFrame

NextSync ==
    \/ SaveEntry
    \/ RemoteWrite
    \/ TimerFires
    \/ GoOnline
    \/ GoOffline
    \/ PushSend
    \/ PushFail
    \/ PushClear
    \/ FullSyncPull
    \/ FullSyncPush

SpecSync == InitSync /\ [][NextSync]_vars

(***************************************************************************)
(* Properties of evaluate                                                  *)
(***************************************************************************)

\* C1: every call of evaluate returns to its caller, and what it returns is
\* a finite number or null.
C1_ReturnsNumberOrNull ==
    pc = "done" => outcome.st = "returned" /\ outcome.val.k \in {"num", "null"}

\* C2: a sentence of the grammar over literals in which no divisor is zero
\* evaluates to its reference value (precedence of * and / over + and -,
\* parentheses first, equal precedence from left to right).
C2_MatchesReference ==
    (Called /\ Tokenized.st = "ok" /\ RefExpression(Tokenized.tokens).k = "num")
        => outcome = Returned(RefExpression(Tokenized.tokens))

\* '2-3-2' has been evaluated to (2-3)-2 = -3
C2_Witness ==
    /\ Called
    /\ expression.str = <<"2", "-", "3", "-", "2">>
    /\ outcome = Returned(Int2Num(-3))

\* C3 (as stated): an expression that is the name of a field absent from
\* fieldValues, or present with the value null, evaluates to null.
C3_MissingFieldIsNull ==
    (/\ Called
     /\ \E i \in NameIndex :
            /\ NameOrder[i] # <<>>
            /\ expression.str = NameOrder[i]
            /\ Lookup(fieldValues, NameOrder[i]).k = "null")
        => outcome = Returned(Null)

\* C4: a sentence of the grammar in which the right operand of some '/' is
\* zero evaluates to null, wherever the division stands.
C4_DivisionByZeroIsNull ==
    (Called /\ Tokenized.st = "ok" /\ RefExpression(Tokenized.tokens).k = "divzero")
        => outcome = Returned(Null)

\* '-(2/0)*2' has been evaluated to null
C4_Witness ==
    /\ Called
    /\ expression.str = <<"-", "(", "2", "/", "0", ")", "*", "2">>
    /\ outcome = Returned(Null)

\* C5: every field reference the tokenizer matches is the longest key of
\* fieldValues the remaining input starts with; a reference with a value
\* becomes one NUMBER token carrying that value, and a reference whose value
\* is null ends the tokenizing with the missing-dependency result.
C5_LongestKeyConsumed ==
    Called =>
        \A i \in 1..Len(Tokenized.refs) :
            LET r == Tokenized.refs[i]
                val == Lookup(fieldValues, r.name)
            IN  /\ HasKey(fieldValues, r.name)
                /\ StartsWith(Trim(expression.str), r.pos, r.name)
                /\ \A j \in 1..Len(fieldValues) :
                      StartsWith(Trim(expression.str), r.pos, fieldValues[j].name)
                          => Len(fieldValues[j].name) <= Len(r.name)
                /\ val.k = "null" =>
                      /\ i = Len(Tokenized.refs)
                      /\ Tokenized.st = "null"
                      /\ outcome = Returned(Null)
                /\ (val.k # "null" /\ r.tok <= Len(Tokenized.tokens)) =>
                      Tokenized.tokens[r.tok] = NumberToken(val)

\* with 'T', 'R' and 'R T' all keys, 'R T' became the one token of 'R T'
C5_Witness ==
    /\ Called
    /\ \A n \in {<<"T">>, <<"R">>, <<"R", " ", "T">>} :
          HasKey(fieldValues, n) /\ Lookup(fieldValues, n).k = "num"
    /\ expression.str = <<"R", " ", "T">>
    /\ Tokenized.tokens = <<NumberToken(Int2Num(11))>>
    /\ outcome = Returned(Int2Num(11))

\* C6: evaluate returns a number only for an expression whose whole token
\* sequence is one sentence of the grammar.
C6_NumberOnlyForSentence ==
    (pc = "done" /\ outcome.val.k = "num") =>
        /\ expression.type = "string"
        /\ Tokenized.st = "ok"
        /\ RefExpression(Tokenized.tokens).k # "bad"

\* '(1)(2)', a sentence followed by more tokens, has been evaluated to null
C6_Witness ==
    /\ Called
    /\ expression.str = <<"(", "1", ")", "(", "2", ")">>
    /\ RefExpression(Tokenized.tokens).k = "bad"
    /\ outcome = Returned(Null)

\* C7 (as stated): an expression that is a key of fieldValues whose value is
\* a finite number evaluates to that value, whatever the key is made of.
C7_KeyEvaluatesToItsValue ==
    (/\ Called
     /\ HasKey(fieldValues, expression.str)
     /\ Lookup(fieldValues, expression.str).k = "num")
        => outcome = Returned(Lookup(fieldValues, expression.str))

(***************************************************************************)
(* Properties of isFieldScheduledForDate                                   *)
(***************************************************************************)
\* the day of the week of a calendar date, 0 = Sunday (Sakamoto's method)
MonthKey == <<0, 3, 2, 5, 0, 3, 5, 1, 4, 6, 2, 4>>
WeekdayOf(c) ==
    LET y == IF c.month < 3 THEN c.year - 1 ELSE c.year
    IN  (y + (y \div 4) - (y \div 100) + (y \div 400) + MonthKey[c.month] + c.day) % 7

\* the number of a calendar date in a count of days, by summing the months
RECURSIVE DaysBeforeMonth(_, _)
DaysBeforeMonth(y, m) ==
    IF m = 1 THEN 0 ELSE DaysBeforeMonth(y, m - 1) + DaysInMonth(y, m - 1)
DayCount(c) ==
    LET y == c.year - 1
    IN  365 * y + (y \div 4) - (y \div 100) + (y \div 400) + DaysBeforeMonth(c.year, c.month) + c.day

\* the calendar date a string 'YYYY-MM-DD' names
DateOf(str) ==
    [year |-> DigitsValue(str, 0, 4), month |-> DigitsValue(str, 5, 2),
     day |-> DigitsValue(str, 8, 2)]

\* the canonical identifier of a date, each digit computed on its own
CanonicalId(c) ==
    <<Digits[((c.year \div 1000) % 10) + 1], Digits[((c.year \div 100) % 10) + 1],
      Digits[((c.year \div 10) % 10) + 1], Digits[(c.year % 10) + 1], "-",
      Digits[(c.month \div 10) + 1], Digits[(c.month % 10) + 1], "-",
      Digits[(c.day \div 10) + 1], Digits[(c.day % 10) + 1]>>

\* C8: a weekdays schedule is active exactly on the dates whose day of the
\* week is an element of days, and on no date when days is no array.
C8_WeekdaysByDayOfWeek ==
    (pc = "done" /\ schedule.present /\ schedule.type = "weekdays") =>
        scheduled = (schedule.hasDays /\ Includes(schedule.days, WeekdayOf(date)))

\* Monday 16 February 2026 is active for days [1, 3, 5] east of UTC
C8_Witness ==
    /\ pc = "done"
    /\ schedule.type = "weekdays" /\ schedule.days = <<1, 3, 5>>
    /\ date = [year |-> 2026, month |-> 2, day |-> 16]
    /\ tzOffset > 0
    /\ scheduled = TRUE

\* C9 (as stated): an interval schedule with startDate S and every n >= 1 is
\* active on date D exactly when D - S in whole days is non-negative and
\* divisible by n.
C9_IntervalEveryNthDay ==
    (/\ pc = "done" /\ schedule.present /\ schedule.type = "interval"
     /\ schedule.hasStart /\ IsDateOnly(schedule.startDate)
     /\ schedule.hasEvery /\ schedule.every >= 1) =>
        LET diff == DayCount(date) - DayCount(DateOf(schedule.startDate))
        IN  scheduled = (diff >= 0 /\ diff % schedule.every = 0)

\* C10: a dates schedule whose dates is an array is active exactly on the
\* dates whose zero-padded identifier YYYY-MM-DD is an element of dates.
C10_DatesByIdentifier ==
    (pc = "done" /\ schedule.present /\ schedule.type = "dates" /\ schedule.hasDates) =>
        scheduled = Includes(schedule.dates, CanonicalId(date))

\* 14 February 2026 is active for the dates ['2026-02-14', '2026-02-28']
C10_Witness ==
    /\ pc = "done"
    /\ schedule.type = "dates" /\ schedule.hasDates
    /\ Includes(schedule.dates, CanonicalId(date))
    /\ date = [year |-> 2026, month |-> 2, day |-> 14]
    /\ scheduled = TRUE

\* the schedule types the predicate knows
KnownTypes == {"everyday", "weekdays", "interval", "dates"}

\* an interval schedule with startDate missing, or every missing or < 1
IntervalLacksField ==
    /\ schedule.type = "interval"
    /\ (~schedule.hasStart \/ ~schedule.hasEvery \/ schedule.every < 1)

\* C11: the predicate returns true for every date when the schedule is
\* absent, has no type, has type 'everyday', has an unknown type, is an
\* interval whose startDate is missing or whose every is missing or < 1, or
\* is a dates schedule whose dates is not an array.
C11_FailOpenCases ==
    (/\ pc = "done"
     /\ \/ ~schedule.present
        \/ schedule.type = ""
        \/ schedule.type = "everyday"
        \/ schedule.type \notin KnownTypes
        \/ IntervalLacksField
        \/ (schedule.type = "dates" /\ ~schedule.hasDates)) => scheduled = TRUE

\* { type: 'interval', every: 2 } without a startDate, on a date before
\* every start date drawn
C11_Witness ==
    /\ pc = "done"
    /\ schedule.type = "interval" /\ ~schedule.hasStart
    /\ schedule.hasEvery /\ schedule.every = 2
    /\ date = [year |-> 2024, month |-> 1, day |-> 3]
    /\ scheduled = TRUE

\* a descriptor of one of the three kinds whose payload is missing or
\* unusable
MalformedDescriptor ==
    /\ schedule.present
    /\ \/ (schedule.type = "weekdays" /\ ~schedule.hasDays)
       \/ IntervalLacksField
       \/ (schedule.type = "interval" /\ schedule.hasStart /\ ~IsDateOnly(schedule.startDate))
       \/ (schedule.type = "dates" /\ ~schedule.hasDates)

DailyGoalDefs ==
    IF \E i \in 1..Len(schema.sections) : schema.sections[i].name = "Daily Goals"
    THEN (CHOOSE sec \in {schema.sections[i] : i \in 1..Len(schema.sections)} :
              sec.name = "Daily Goals").fields
    ELSE <<>>

\* the calendar meaning of the schedules drawn for goals
ActiveOn(sch, c) ==
    IF ~sch.present THEN TRUE
    ELSE IF sch.type = "weekdays" THEN \E i \in 1..Len(sch.days) : sch.days[i] = WeekdayOf(c)
    ELSE \E i \in 1..Len(sch.dates) : sch.dates[i] = CanonicalId(c)

\* the state map holds exactly true under the name
CheckedIn(g, name) ==
    g.present /\ \E i \in 1..Len(g.entries) : g.entries[i] = [name |-> name, val |-> "true"]

ScheduledGoals == {i \in 1..Len(DailyGoalDefs) : ActiveOn(DailyGoalDefs[i].def.schedule, date)}
CheckedGoals == {i \in ScheduledGoals : CheckedIn(goals, DailyGoalDefs[i].name)}

DailyDone == pc = "done" /\ fn = "computeDailyCompletion"
MonthlyDone == pc = "done" /\ fn = "computeMonthlyCompletion"

\* C13: computeDailyCompletion is the number of goals scheduled on the date
\* whose state is exactly true divided by the number of goals scheduled on
\* the date; a goal not scheduled counts on neither side, checked or not.
C13_DailyRatioOverScheduled ==
    (DailyDone /\ ScheduledGoals # {}) =>
        /\ ret.ratio.k = "num"
        /\ ret.ratio.n * Cardinality(ScheduledGoals) = ret.ratio.d * Cardinality(CheckedGoals)

\* Sunday 15 February 2026: a checked Monday/Wednesday/Friday goal and an
\* unchecked everyday goal give 0 / 1
C13_Witness ==
    /\ DailyDone
    /\ date = [year |-> 2026, month |-> 2, day |-> 15]
    /\ Len(DailyGoalDefs) = 2
    /\ DailyGoalDefs[1].def.schedule.type = "weekdays"
    /\ CheckedIn(goals, DailyGoalDefs[1].name)
    /\ ~DailyGoalDefs[2].def.schedule.present
    /\ ~CheckedIn(goals, DailyGoalDefs[2].name)
    /\ ret.ratio = Int2Num(0)

\* the denominator of the ratio returned
Denominator ==
    IF fn = "computeDailyCompletion" THEN Cardinality(ScheduledGoals)
    ELSE IF goals.present THEN Len(goals.entries) ELSE 0

\* C14: both completion functions return a number r with 0 <= r <= 1, never
\* NaN, and exactly 0 when the denominator is 0, whatever the state map and
\* the schema.
C14_RatioInUnitInterval ==
    (DailyDone \/ MonthlyDone) =>
        /\ ret.ratio.k = "num"
        /\ ret.ratio.d > 0
        /\ 0 <= ret.ratio.n /\ ret.ratio.n <= ret.ratio.d
        /\ Denominator = 0 => ret.ratio = Int2Num(0)

\* a date on which none of the goals defined is scheduled, with a state map
\* holding a checked goal that the schema does not define
C14_Witness ==
    /\ DailyDone
    /\ Len(DailyGoalDefs) > 0 /\ ScheduledGoals = {}
    /\ goals.present
    /\ \E i \in 1..Len(goals.entries) :
          /\ goals.entries[i].val = "true"
          /\ \A j \in 1..Len(DailyGoalDefs) : DailyGoalDefs[j].name # goals.entries[i].name
    /\ ret.ratio = Int2Num(0)

\* C15: computeMonthlyCompletion is the number of keys whose value is
\* exactly true divided by the number of keys, and 0 for an empty, null or
\* absent map.
C15_MonthlyRatioOverKeys ==
    MonthlyDone =>
        IF goals.present /\ Len(goals.entries) > 0
        THEN /\ ret.ratio.k = "num"
             /\ ret.ratio.n * Len(goals.entries) =
                  ret.ratio.d * Cardinality({i \in 1..Len(goals.entries) : goals.entries[i].val = "true"})
        ELSE ret.ratio = Int2Num(0)

\* one goal checked, one unchecked, one holding a truthy value that is not
\* true: 1 / 3
C15_Witness ==
    /\ MonthlyDone
    /\ goals.present /\ Len(goals.entries) = 3
    /\ {goals.entries[i].val : i \in 1..3} = {"true", "false", "other"}
    /\ ret.ratio = Num(1, 3)

(***************************************************************************)
(* Properties of getDependencies                                           *)
(***************************************************************************)
\* name is the text between two positions of str
Occurs(name, str) ==
    \E i \in 1..(Len(str) + 1), j \in 0..Len(str) : SubSeq(str, i, j) = name

DependenciesDone == pc = "done" /\ fn = "getDependencies"

\* C16: getDependencies returns exactly the names of allFieldNames that
\* occur as a substring of the expression, in the order of allFieldNames,
\* and the empty sequence for an empty or missing expression.
C16_DependenciesInListOrder ==
    DependenciesDone =>
        IF expression.type # "string" \/ expression.str = <<>>
        THEN ret.list = <<>>
        ELSE ret.list = SelectSeq(allFieldNames, LAMBDA name : Occurs(name, expression.str))

\* 'R+T' with the names ['T', 'R']: T first, though R comes first in the
\* expression
C16_Witness ==
    /\ DependenciesDone
    /\ expression.str = <<"R", "+", "T">>
    /\ allFieldNames = << <<"T">>, <<"R">> >>
    /\ ret.list = << <<"T">>, <<"R">> >>

(***************************************************************************)
(* Properties of describeSchedule and of the arguments                     *)
(***************************************************************************)
DescribeDone == pc = "done" /\ fn = "describeSchedule"

\* C18: a call of evaluate, describeSchedule, computeDailyCompletion or
\* computeMonthlyCompletion leaves its arguments as they were: the field
\* values and their order, the order of schedule.days, the goal-state map
\* and the schema.
C18_ArgumentsUnchanged ==
    [][/\ fieldValues' = fieldValues
       /\ schedule' = schedule
       /\ goals' = goals
       /\ schema' = schema]_vars

\* days [5, 3, 1] described as Mon, Wed, Fri and still [5, 3, 1]
C18_Witness ==
    /\ DescribeDone
    /\ schedule.days = <<5, 3, 1>>
    /\ ret.list = <<"Mon", ", ", "Wed", ", ", "Fri">>

\* the three-letter abbreviation of each day index
Abbreviation ==
    [d \in 0..6 |-> CASE d = 0 -> "Sun" [] d = 1 -> "Mon" [] d = 2 -> "Tue" [] d = 3 -> "Wed"
                      [] d = 4 -> "Thu" [] d = 5 -> "Fri" [] OTHER -> "Sat"]

\* the abbreviations of the days of S from Sunday to Saturday, ', ' between
RECURSIVE AscendingText(_, _)
AscendingText(S, from) ==
    IF from > 6 THEN <<>>
    ELSE LET rest == AscendingText(S, from + 1)
         IN  IF from \notin S THEN rest
             ELSE IF rest = <<>> THEN <<Abbreviation[from]>>
             ELSE <<Abbreviation[from], ", ">> \o rest

\* C19: for a weekdays schedule describeSchedule returns 'No days selected'
\* when days is empty, 'Every day' when days is the full set 0..6, and
\* otherwise the day abbreviations joined by ', ' in ascending day-index
\* order, whatever the order of the elements of days.
C19_WeekdaysDescribedAscending ==
    (DescribeDone /\ schedule.present /\ schedule.type = "weekdays" /\ schedule.hasDays) =>
        LET selected == {schedule.days[i] : i \in 1..Len(schedule.days)}
        IN  IF selected = {} THEN ret.list = <<"No days selected">>
            ELSE IF selected = 0..6 THEN ret.list = <<"Every day">>
            ELSE ret.list = AscendingText(selected, 0)

\* days [6, 2, 0] are described as Sun, Tue, Sat
C19_Witness ==
    /\ DescribeDone
    /\ schedule.type = "weekdays" /\ schedule.days = <<6, 2, 0>>
    /\ ret.list = <<"Sun", ", ", "Tue", ", ", "Sat">>

(***************************************************************************)
(* Properties of validateSchema                                            *)
(***************************************************************************)
\* str has the form YYYY-MM-DD
HasDateForm(str) ==
    /\ Len(str) = 10
    /\ \A i \in {1, 2, 3, 4, 6, 7, 9, 10} : str[i] \in {"0", "1", "2", "3", "4", "5", "6", "7", "8", "9"}
    /\ str[5] = "-" /\ str[8] = "-"

\* the field definitions of the schema
DefinedFields ==
    UNION {{sec.fields[i].def : i \in 1..Len(sec.fields)} :
              sec \in {s \in {schema.sections[j] : j \in 1..Len(schema.sections)} : s.isObject}}

\* a schedule with a payload fault
BadSchedule(s) ==
    \/ /\ s.type = "weekdays"
       /\ (~s.hasDays \/ \E i \in 1..Len(s.days) : s.days[i] \notin 0..6)
    \/ /\ s.type = "interval"
       /\ ((s.hasEvery /\ s.every < 1) \/ ~s.hasStart \/ ~HasDateForm(s.startDate))
    \/ /\ s.type = "dates" /\ s.hasDates
       /\ \E i \in 1..Len(s.dates) : ~HasDateForm(s.dates[i])

\* a field definition with a fault
BadField(def) ==
    \/ ~def.isObject
    \/ def.type = ""
    \/ def.type \notin {"time", "number", "checkbox", "velocity", "text"}
    \/ (def.type = "velocity" /\ ~def.hasCalc)
    \/ (def.schedule.present /\ BadSchedule(def.schedule))

ValidateDone == pc = "done" /\ fn = "validateSchema"

\* C20: valid is true exactly when the errors list is empty, and it is false
\* whenever the schema is not an object or some field has a missing or
\* unknown type, is a velocity without a calculation, or has a weekdays,
\* interval or dates schedule with the payload faults listed.
C20_ValidExactlyWithoutErrors ==
    ValidateDone =>
        /\ ret.valid = (ret.list = <<>>)
        /\ (~schema.isObject \/ \E def \in DefinedFields : BadField(def)) => ret.valid = FALSE

\* one number field scheduled on the weekdays [7]: one error, not valid
C20_Witness ==
    /\ ValidateDone
    /\ Len(schema.sections) = 1 /\ Len(schema.sections[1].fields) = 1
    /\ schema.sections[1].fields[1].def.type = "number"
    /\ schema.sections[1].fields[1].def.schedule.days = <<7>>
    /\ ret.valid = FALSE /\ Len(ret.list) = 1

(***************************************************************************)
(* Properties of the date identifiers                                      *)
(***************************************************************************)
\* C21: toDateId gives the identifier YYYY-MM-DD with month and day padded
\* to two digits, and parseDateId gives back the year, month and day it was
\* made from, for every four-digit year, month 1..12 and day 1..31.
C21_DateIdRoundTrip ==
    /\ (pc \in {"formatted", "done"} /\ fn = "toDateId") => dateId = CanonicalId(date)
    /\ (pc = "done" /\ fn = "toDateId") =>
          parsed = [year |-> Int2Num(date.year), month |-> Int2Num(date.month),
                    day |-> Int2Num(date.day)]

\* 5 February 2026 becomes '2026-02-05' and comes back as 2026, 2, 5
C21_Witness ==
    /\ pc = "done" /\ fn = "toDateId"
    /\ date = [year |-> 2026, month |-> 2, day |-> 5]
    /\ dateId = <<"2", "0", "2", "6", "-", "0", "2", "-", "0", "5">>
    /\ parsed = [year |-> Int2Num(2026), month |-> Int2Num(2), day |-> Int2Num(5)]

\* C22: when the value of the expression is NaN or an infinity that does not
\* come from a division by zero (a field whose value does not parse, an
\* infinite field value), evaluate returns null; it never returns NaN or an
\* infinity.
C22_NonFiniteIsNull ==
    Called =>
        /\ outcome.st = "returned"
        /\ outcome.val.k \in {"num", "null"}
        /\ (Tokenized.st = "ok" /\ RefExpression(Tokenized.tokens).k \in {"nan", "inf"})
              => outcome = Returned(Null)

\* 'T*2' with T a text that is no number: NaN * 2, returned as null
C22_Witness ==
    /\ Called
    /\ expression.str = <<"T", "*", "2">>
    /\ Lookup(fieldValues, <<"T">>) = Text
    /\ RefExpression(Tokenized.tokens) = NaN
    /\ outcome = Returned(Null)


(***************************************************************************)
(* Unary minus                                                             *)
(***************************************************************************)
\* token i is a '-' where a factor is expected
FactorPosition(toks, i) ==
    /\ toks[i].type = "OPERATOR" /\ toks[i].op = "-"
    /\ i = 1 \/ toks[i - 1].type \in {"OPERATOR", "PAREN_OPEN"}

\* the parenthesis that closes the one at token i, 0 when there is none
MatchingClose(toks, i) ==
    LET J == {j \in (i + 1)..Len(toks) :
                 /\ toks[j].type = "PAREN_CLOSE"
                 /\ DepthBefore(toks, j + 1) = DepthBefore(toks, i)}
    IN  IF J = {} THEN 0 ELSE CHOOSE j \in J : \A k \in J : j <= k

\* the last token of the factor that starts at token i, 0 when none starts
RECURSIVE FactorEnd(_, _)
FactorEnd(toks, i) ==
    IF i > Len(toks) THEN 0
    ELSE IF toks[i].type = "NUMBER" THEN i
    ELSE IF toks[i].type = "PAREN_OPEN" THEN MatchingClose(toks, i)
    ELSE IF toks[i].type = "OPERATOR" /\ toks[i].op = "-" THEN FactorEnd(toks, i + 1)
    ELSE 0

\* the tokens with the tokens i..e replaced by the number v
Substituted(toks, i, e, v) ==
    SubSeq(toks, 1, i - 1) \o <<NumberToken(v)>> \o SubSeq(toks, e + 1, Len(toks))

StringOf(str) == Called /\ expression.str = str

\* C23: a '-' in factor position negates exactly the factor after it: the
\* expression has the value it has with the '-' and that factor replaced by
\* the negated value of the factor, wherever the '-' stands (first, after a
\* binary operator, after another '-', in front of a parenthesis); a factor
\* that is null has a null negation; and '-10 + 5' = -5, '10 - -5' = 15,
\* '--5' = 5, '-(2 + 3) * 2' = -10.
C23_UnaryMinusNegatesFactor ==
    /\ (Called /\ Tokenized.st = "ok") =>
          \A i \in 1..Len(Tokenized.tokens) :
              LET toks == Tokenized.tokens
                  e == FactorEnd(toks, i + 1)
                  f == RefFactor(SubSeq(toks, i + 1, e))
              IN  (FactorPosition(toks, i) /\ e > 0) =>
                    /\ f.k = "num" =>
                          outcome = ParseAll([Tokenized EXCEPT
                                       !.tokens = Substituted(toks, i, e, NegNum(f))])
                    /\ LET r == parseFactor(toks, i) IN
                       (r.st = "ok" /\ r.val = Null) =>
                           parseFactor(toks, i - 1) = Ok(Null, r.pos)
    /\ StringOf(<<"-", "1", "0", " ", "+", " ", "5">>) => outcome = Returned(Int2Num(-5))
    /\ StringOf(<<"1", "0", " ", "-", " ", "-", "5">>) => outcome = Returned(Int2Num(15))
    /\ StringOf(<<"-", "-", "5">>) => outcome = Returned(Int2Num(5))
    /\ StringOf(<<"-", "(", "2", " ", "+", " ", "3", ")", " ", "*", " ", "2">>)
          => outcome = Returned(Int2Num(-10))

\* '-(2 + 3) * 2' has been evaluated to -10, the value of '(-5) * 2'
C23_Witness ==
    /\ StringOf(<<"-", "(", "2", " ", "+", " ", "3", ")", " ", "*", " ", "2">>)
    /\ FactorPosition(Tokenized.tokens, 1)
    /\ FactorEnd(Tokenized.tokens, 2) = 6
    /\ outcome = Returned(Int2Num(-10))

\* '-(2/0)' has been evaluated: the factor after the '-' is null, and so is
\* its negation
C23_NullWitness ==
    /\ StringOf(<<"-", "(", "2", "/", "0", ")", "*", "2">>)
    /\ parseFactor(Tokenized.tokens, 1) = Ok(Null, 6)
    /\ outcome = Returned(Null)


(***************************************************************************)
(* Properties of the entry views                                           *)
(***************************************************************************)
\* C24 (as stated): every entry handed to the save step, by a goal checkbox
\* or a field input of the daily entry view or of the data grid, carries
\* dailyGoalCompletion = computeDailyCompletion(entry.dailyGoals, schema,
\* year, month, day) for its own date.
C24_CompletionRecomputedOnSave ==
    [][(saved' # saved /\ saved'.handed) =>
          saved'.doc.dailyGoalCompletion =
              computeDailyCompletion(saved'.doc.dailyGoals, schema',
                                     date'.year, date'.month, date'.day, tzOffset')]_vars


(***************************************************************************)
(* Properties of computeCalcField                                          *)
(***************************************************************************)
CalcDone == pc = "done" /\ fn = "computeCalcField" /\ expression.str # <<>>

\* the entry holds an entered value for the field
Entered(name) ==
    \E i \in 1..Len(section.stored) :
        /\ section.stored[i].name = name
        /\ section.stored[i].val \notin {RawNull, RawUndefined, RawString(<<>>)}

\* hours * 60 + minutes of the times drawn
MinutesOf(str) ==
    CASE str = <<"7", ":", "0", "5">> -> 7 * 60 + 5
      [] str = <<"1", "2", ":", "3", "0">> -> 12 * 60 + 30
      [] OTHER -> -1

StoredValue(name) ==
    section.stored[CHOOSE i \in 1..Len(section.stored) : section.stored[i].name = name].val

\* the formula has the field as an operand
References(name) ==
    \/ expression.str = name
    \/ \E other \in Operands, op \in OperatorChars :
          expression.str \in {Formula(name, op, other), Formula(other, op, name)}

\* the value map has a key for every field the section defines, null for a
\* field without an entered value, hours * 60 + minutes for a time field
ValueMapBuilt ==
    CalcDone =>
        \A i \in 1..Len(section.defs) :
            LET name == section.defs[i].name IN
            /\ HasKey(fieldValues, name)
            /\ ~Entered(name) => Lookup(fieldValues, name) = Null
            /\ (Entered(name) /\ section.defs[i].type = "time") =>
                  Lookup(fieldValues, name) = Int2Num(MinutesOf(StoredValue(name).str))

\* C25 (as stated): computeCalcField hands evaluate a map with every field
\* of the section, null for a field whose entered value is null, undefined
\* or '', hours * 60 + minutes for a time field, so that a formula with a
\* field without an entered value as an operand evaluates to null.
C25_CalcFieldValueMap ==
    /\ ValueMapBuilt
    /\ CalcDone =>
          \A i \in 1..Len(section.defs) :
              (References(section.defs[i].name) /\ ~Entered(section.defs[i].name))
                  => outcome = Returned(Null)


\* the same consequence where no key of the map is the empty string with a value
NullWithoutEmptyKey ==
    (CalcDone /\ Lookup(fieldValues, <<>>) = Null) =>
        \A i \in 1..Len(section.defs) :
            (References(section.defs[i].name) /\ ~Entered(section.defs[i].name))
                => outcome = Returned(Null)


(***************************************************************************)
(* Keys the expression does not reference                                  *)
(***************************************************************************)
\* the map without its i-th key
WithoutKey(fv, i) == SubSeq(fv, 1, i - 1) \o SubSeq(fv, i + 1, Len(fv))

\* the tokenizer matched the name at some position of the expression
Matched(name) == \E j \in 1..Len(Tokenized.refs) : Tokenized.refs[j].name = name

\* C27: a key of fieldValues with the value null that the tokenizer matches
\* at no position of the expression does not affect the result: evaluate
\* does what it does on the map without that key; with {T: 5, R: null},
\* evaluate('T+2') = 7.
C27_UnreferencedNullIgnored ==
    Called =>
        /\ \A i \in 1..Len(fieldValues) :
              (fieldValues[i].val = Null /\ ~Matched(fieldValues[i].name))
                  => outcome = evaluate(expression, WithoutKey(fieldValues, i))
        /\ (/\ expression.str = <<"T", "+", "2">>
            /\ fieldValues = <<[name |-> <<"T">>, val |-> Int2Num(5)],
                               [name |-> <<"R">>, val |-> Null]>>)
              => outcome = Returned(Int2Num(7))

\* 'T+2' has been evaluated to 7 with {T: 5, R: null}
C27_Witness ==
    /\ Called
    /\ expression.str = <<"T", "+", "2">>
    /\ fieldValues = <<[name |-> <<"T">>, val |-> Int2Num(5)], [name |-> <<"R">>, val |-> Null]>>
    /\ ~Matched(<<"R">>)
    /\ outcome = Returned(Int2Num(7))


\* C28 (as stated): for an interval schedule with a start date S and
\* every = n >= 1 the predicate is the same in every time zone of the
\* runtime, from UTC-12 to UTC+14, and it is true on the date S itself.
C28_IntervalZoneIndependent ==
    (/\ pc = "done" /\ schedule.present /\ schedule.type = "interval"
     /\ schedule.hasStart /\ IsDateOnly(schedule.startDate)
     /\ schedule.hasEvery /\ schedule.every >= 1) =>
        /\ \A tz \in TimeZones :
              scheduled = isFieldScheduledForDate(schedule, date.year, date.month, date.day, tz)
        /\ date = DateOf(schedule.startDate) => scheduled


\* C29 (as stated): for every schedule descriptor, a date is active when
\* describeSchedule says 'Every day', and no date is active when it says
\* 'No days selected' or 'No dates'.
C29_DescriptionAgreesWithPredicate ==
    pc = "done" =>
        /\ describeSchedule(schedule) = <<"Every day">> => scheduled
        /\ describeSchedule(schedule) \in {<<"No days selected">>, <<"No dates">>} => ~scheduled


(***************************************************************************)
(* Properties of the SyncEngine                                            *)
(***************************************************************************)
\* the newest version of document d before the fullSync under way
NewestBefore(d) ==
    IF log.before.local[d].ver > log.before.remote[d].ver
    THEN log.before.local[d].ver ELSE log.before.remote[d].ver

\* C26 (as stated): when fullSync (pullAll, then pushPending) has run to its
\* end without an error, neither IndexedDB nor MongoDB holds, for any
\* document, a version older than the newest version either of them held
\* before the sync.
C26_FullSyncKeepsNewest ==
    [][(engine.full # "done" /\ engine'.full = "done") =>
          \A d \in Docs :
              /\ store'.local[d].ver >= NewestBefore(d)'
              /\ store'.remote[d].ver >= NewestBefore(d)']_vars

\* the mutation has been sent, itself or a later one of the same document
Sent(mutation) ==
    \E s \in log.sent : s.docId = mutation.docId /\ s.data.ver >= mutation.data.ver

InQueue(mutation) == \E i \in 1..Len(store.syncQueue) : store.syncQueue[i] = mutation

\* C30 (as stated): when pushPending is not running, every mutation that
\* was added to the sync queue has been sent to MongoDB, itself or a later
\* mutation of the same document, or is still in the queue.
C30_NoQueuedMutationLost ==
    ~engine.pushing => \A mutation \in log.enqueued : Sent(mutation) \/ InQueue(mutation)

====
